---------------------------- MODULE Spec2Model ----------------------------
(***************************************************************************)
(* A model of the developer-tooling scripts of claude-dotfiles:            *)
(*                                                                         *)
(*   - scripts/feedback_parser.py : FeedbackParser.parse_file, the         *)
(*     single-pass line scanner that collects feedback blocks;             *)
(*   - scripts/ingest-repo.py     : SecurityFilter.should_include_file and *)
(*     copy_filtered_files, RepoIngestion's name sanitising and manifest   *)
(*     update;                                                             *)
(*   - scripts/remove-ingested-repo.py : main, the manifest removal.       *)
(*                                                                         *)
(* Text is modelled by TLA+ strings, on which TLC evaluates Len, SubSeq,   *)
(* Head, Tail and \o; a character is a string of length one.  Python's     *)
(* None is the empty tuple <<>> and a present value v is <<v>>.            *)
(*                                                                         *)
(*   - scripts/feedback_parser.py : parse_metadata on its own and          *)
(*     parse_repository, the loop over the files git grep names;           *)
(*   - scripts/planworktree.py    : the four commands and create_worktree; *)
(*   - scripts/ingest-repo.py     : main, its exit codes and diagnostics.  *)
(*                                                                         *)
(* The subsystems share no state.  Each has its own specification (Spec,   *)
(* SpecFilter, SpecManifest, SpecMetadata, SpecRepository, SpecPlan,       *)
(* SpecMain); the variables of the others stay at their idle values.       *)
(***************************************************************************)
EXTENDS Integers, Sequences, FiniteSets, TLC

VARIABLES
    \* ---- feedback_parser.py, FeedbackParser.parse_file
    lines,           \* f.readlines(): the lines of the file, line ends kept
    line_num,        \* number of lines the for loop has consumed
    blocks,          \* the list being returned
    current_block,   \* None (FALSE) or True
    current_lines,
    block_start,     \* Optional[int]
    has_feedback,
    has_response,
    has_resolved,
    metadata,
    ppc,             \* "scan" while in the loop, "done" after the return
    \* ---- ingest-repo.py, SecurityFilter
    global_filters,  \* self.global_filters
    allowlist,       \* self.allowlist
    visited,         \* relative paths rglob has yielded so far
    dest,            \* relative paths present under dest_dir
    stats,           \* {'included': n, 'filtered': m}
    file,            \* the file of the last should_include_file call
    verdict,         \* what that call returned, and the return statement taken
    \* ---- ingest-repo.py / remove-ingested-repo.py, the manifest
    manifest,        \* the manifest file on disk
    proc,            \* per invocation: its position and its local variables
    clock,           \* datetime.utcnow(), as a logical clock
    hist,            \* history of the loads and writes, for the race claims
    \* ---- feedback_parser.py, FeedbackParser.parse_metadata called alone
    md_line,         \* the argument line
    md_result,       \* None before the call, then the dict returned
    \* ---- feedback_parser.py, FeedbackParser.parse_repository
    repo_files,      \* the files find_files_with_feedback returned, in order
    file_idx,        \* index of the file parse_file is working on (0: none)
    feedback_blocks, \* self.feedback_blocks
    rpc,             \* position in parse_repository
    \* ---- planworktree.py
    plan_doc,        \* text of the plan file
    fs,              \* what is at each worktree path
    branches,        \* refs/heads of the repository
    pw,              \* the running command: position and local variables
    git_log,         \* git commands run so far, for the frame claims
    last_call,       \* the last create_worktree call, for the frame claims
    \* ---- ingest-repo.py, main
    mn,              \* one run of main: arguments, environment, position, result
    \* ---- feedback_parser.py, FeedbackParser.filter_blocks
    fb_args,         \* the four keyword arguments of the last call
    fb_result,       \* None before a call, then the list returned
    \* ---- feedback_parser.py, FeedbackParser.is_feedback_line called alone
    fl_line,         \* the argument line
    fl_result,       \* <<>> before the call, then <<the value returned>>
    \* ---- ingest-repo.py, SecurityFilter.__init__
    sf_config,       \* the document at global_config_path
    sf_local,        \* None, or the document at local_config_path
    sf_pc,           \* "idle", "new" before __init__ runs, "built" after
    \* ---- ingest-repo.py, RepoIngestion._update_gitignore
    gitignore,       \* None (no file) or <<text of .gitignore>>
    gi_hist,         \* the text of .gitignore after each run so far
    \* ---- ingest-repo.py, main and RepoIngestion.ingest run one after another
    ig,              \* the running invocation: position and local variables
    cache,           \* the URLs whose clone is in the cache directory
    ctx,             \* per directory under context_dir: path -> revision it is from
    ig_done,         \* the ingests that returned 0 so far, in order
    rm               \* the invocation of remove-ingested-repo.py that ran last

parserVars   == <<lines, line_num, blocks, current_block, current_lines,
                  block_start, has_feedback, has_response, has_resolved,
                  metadata, ppc>>
filterVars   == <<global_filters, allowlist, visited, dest, stats, file, verdict>>
manifestVars == <<manifest, proc, clock, hist>>
metadataVars == <<md_line, md_result>>
repoVars     == <<repo_files, file_idx, feedback_blocks, rpc>>
planVars     == <<plan_doc, fs, branches, pw, git_log, last_call>>
mainVars     == <<mn>>
filterBlocksVars == <<fb_args, fb_result>>
tagVars      == <<fl_line, fl_result>>
mergeVars    == <<sf_config, sf_local, sf_pc>>
ignoreVars   == <<gitignore, gi_hist>>
ingestVars   == <<ig, cache, ctx, ig_done, rm>>
thirdVars    == <<filterBlocksVars, tagVars, mergeVars, ignoreVars, ingestVars>>
vars         == <<parserVars, filterVars, manifestVars, metadataVars, repoVars,
                  planVars, mainVars, thirdVars>>

\* the variables of the subsystems added to the first three
laterVars    == <<metadataVars, repoVars, planVars, mainVars, thirdVars>>

-----------------------------------------------------------------------------
(* Bounds of the model *)

MaxLines == 4        \* lines in a parsed file
MaxFiles == 2        \* files of one source tree walked by copy_filtered_files
MaxClock == 3        \* manifest operations started in one run
MaxRepoFiles == 3    \* files parse_repository walks
MaxRuns == 2         \* planworktree.py commands run one after the other
MaxIgnoreLines == 2  \* lines of .gitignore before the first ingest
MaxIgnoreRuns == 2   \* runs of _update_gitignore on one .gitignore
MaxIngests == 2      \* invocations of ingest-repo.py run one after the other

-----------------------------------------------------------------------------
(* Python values and string primitives *)

None == <<>>
Some(v) == <<v>>

Char(s, i) == SubSeq(s, i, i)

\* s[i:i+len(w)] == w
StartsWithAt(s, i, w) ==
    /\ i >= 1
    /\ i + Len(w) - 1 <= Len(s)
    /\ SubSeq(s, i, i + Len(w) - 1) = w

\* w in s
Contains(s, w) == \E i \in 1..(Len(s) - Len(w) + 1) : StartsWithAt(s, i, w)

Min(S) == CHOOSE i \in S : \A j \in S : i <= j

Lower == {"a","b","c","d","e","f","g","h","i","j","k","l","m",
          "n","o","p","q","r","s","t","u","v","w","x","y","z"}
Upper == {"A","B","C","D","E","F","G","H","I","J","K","L","M",
          "N","O","P","Q","R","S","T","U","V","W","X","Y","Z"}
Digit == {"0","1","2","3","4","5","6","7","8","9"}

\* the regex class \s
IsSpace(c) == c \in {" ", "\t", "\n", "\r", "\f"}
\* the regex class \w
IsWord(c) == c \in Lower \cup Upper \cup Digit \cup {"_"}

\* first index >= i of s that holds no white space (Len(s)+1 if none): \s*
RECURSIVE SkipSpace(_, _)
SkipSpace(s, i) ==
    IF i <= Len(s) /\ IsSpace(Char(s, i)) THEN SkipSpace(s, i + 1) ELSE i

\* str.rstrip()
RECURSIVE rstrip(_)
rstrip(s) ==
    IF Len(s) > 0 /\ IsSpace(Char(s, Len(s)))
    THEN rstrip(SubSeq(s, 1, Len(s) - 1))
    ELSE s

-----------------------------------------------------------------------------
(* feedback_parser.py *)

TAGS == <<"FEEDBACK", "RESPONSE", "RESOLVED">>

\* the group (FEEDBACK|RESPONSE|RESOLVED) tried at index i
TagAt(s, i) ==
    IF \E k \in 1..Len(TAGS) : StartsWithAt(s, i, TAGS[k])
    THEN Some(TAGS[Min({k \in 1..Len(TAGS) : StartsWithAt(s, i, TAGS[k])})])
    ELSE None

\* the closer not asked for
ClosesAfterNotAsked(s, i, closer) == TRUE

\* '.*?' followed by closer, from index i on: '.' matches no line end
ClosesAfter(s, i, closer) ==
    \E k \in i..Len(s) :
        /\ StartsWithAt(s, k, closer)
        /\ \A j \in i..(k - 1) : Char(s, j) # "\n"

\* pattern.search(line) for  ^\s*<opener>\s*(FEEDBACK|RESPONSE|RESOLVED)
\* and, when closer is not empty, .*?<closer> after it; the result is group 1
PatternSearch(line, opener, closer) ==
    LET i == SkipSpace(line, 1)
        j == SkipSpace(line, i + Len(opener))
        tag == TagAt(line, j)
    IN  IF /\ StartsWithAt(line, i, opener)
           /\ tag # None
           /\ closer # "" => ClosesAfter(line, j + Len(tag[1]), closer)
        THEN tag
        ELSE None

\* FeedbackParser.PATTERNS, in the order of the dict
PATTERNS == << [opener |-> "#",    closer |-> ""],
               [opener |-> "//",   closer |-> ""],
               [opener |-> "<!--", closer |-> "-->"],
               [opener |-> "/*",   closer |-> "*/"] >>

PatternHit(line, k) == PatternSearch(line, PATTERNS[k].opener, PATTERNS[k].closer)

\* FeedbackParser.is_feedback_line: the tag of the first pattern that matches
is_feedback_line(line) ==
    LET hits == {k \in 1..Len(PATTERNS) : PatternHit(line, k) # None}
    IN  IF hits = {} THEN None ELSE PatternHit(line, Min(hits))

SEVERITIES == <<"CRITICAL", "MAJOR", "MINOR", "NIT">>

\* the label that comes first in the line, not first in SEVERITIES
ExtractSeverityFirstInLine(line) ==
    LET at == {i \in 1..Len(line) :
                  \E k \in 1..Len(SEVERITIES) :
                      StartsWithAt(line, i, "[" \o SEVERITIES[k] \o "]")}
    IN  IF at = {} THEN None
        ELSE Some(SEVERITIES[CHOOSE k \in 1..Len(SEVERITIES) :
                      StartsWithAt(line, Min(at), "[" \o SEVERITIES[k] \o "]")])

\* the loop over SEVERITIES with its break
ExtractSeverity(line) ==
    LET hits == {k \in 1..Len(SEVERITIES) : Contains(line, "[" \o SEVERITIES[k] \o "]")}
    IN  IF hits = {} THEN None ELSE Some(SEVERITIES[Min(hits)])

\* end of the longest run of [\w-] that starts at i
RECURSIVE HandleEnd(_, _)
HandleEnd(s, i) ==
    IF i + 1 <= Len(s) /\ (IsWord(Char(s, i + 1)) \/ Char(s, i + 1) = "-")
    THEN HandleEnd(s, i + 1)
    ELSE i

\* group(0) in place of group(1): the '@' is kept
ExtractReviewerWithAt(line) ==
    LET hits == {i \in 1..(Len(line) - 1) :
                    /\ Char(line, i) = "@"
                    /\ IsWord(Char(line, i + 1)) \/ Char(line, i + 1) = "-"}
    IN  IF hits = {} THEN None
        ELSE LET i == Min(hits) IN Some(SubSeq(line, i, HandleEnd(line, i + 1)))

\* re.search(r'@([\w-]+)', line)
ExtractReviewer(line) ==
    LET hits == {i \in 1..(Len(line) - 1) :
                    /\ Char(line, i) = "@"
                    /\ IsWord(Char(line, i + 1)) \/ Char(line, i + 1) = "-"}
    IN  IF hits = {} THEN None
        ELSE LET i == Min(hits) IN Some(SubSeq(line, i + 1, HandleEnd(line, i + 1)))

IsDateAt(s, i) ==
    /\ i + 9 <= Len(s)
    /\ \A d \in {0, 1, 2, 3, 5, 6, 8, 9} : Char(s, i + d) \in Digit
    /\ Char(s, i + 4) = "-"
    /\ Char(s, i + 7) = "-"

\* re.search(r'(\d{4}-\d{2}-\d{2})', line)
ExtractDate(line) ==
    LET hits == {i \in 1..Len(line) : IsDateAt(line, i)}
    IN  IF hits = {} THEN None
        ELSE Some(SubSeq(line, Min(hits), Min(hits) + 9))

\* FeedbackParser.parse_metadata
parse_metadata(line) ==
    [severity |-> ExtractSeverity(line),
     reviewer |-> ExtractReviewer(line),
     date     |-> ExtractDate(line)]

\* metadata = {}: every metadata.get(...) is None
EmptyMetadata == [severity |-> None, reviewer |-> None, date |-> None]

\* "Determine status"
StatusSwapped(resolved, response) ==
    IF response THEN "responded" ELSE IF resolved THEN "resolved" ELSE "open"

StatusOf(resolved, response) ==
    IF resolved THEN "resolved" ELSE IF response THEN "responded" ELSE "open"

\* the argument of parse_file: a file of its own, or the file parse_repository
\* is at
file_path == IF file_idx = 0 THEN "src/app.py" ELSE repo_files[file_idx].path

\* line_end=block_start + len(current_lines) - 1
LineEndPastLast(start, cur) == start + Len(cur)

LineEnd(start, cur) == start + Len(cur) - 1

\* FeedbackBlock(...)
MakeBlock(start, cur, md, resp, res) ==
    [file_path      |-> file_path,
     line_start     |-> start,
     line_end       |-> LineEnd(start, cur),
     feedback_lines |-> cur,
     severity       |-> md.severity,
     reviewer       |-> md.reviewer,
     date           |-> md.date,
     status         |-> StatusOf(res, resp),
     has_response   |-> resp,
     has_resolved   |-> res]

\* The lines a file may hold (each as readlines() returns it)
LineChoices ==
    { "# FEEDBACK [CRITICAL] (@alice, 2025-11-23): fix\n",
      "# RESPONSE (@bob): done\n",
      "    // RESOLVED\n",
      "<!-- FEEDBACK [MINOR] -->\n",
      "<!-- RESPONSE\n",
      "/* RESOLVED: ok */\n",
      "x = 1  # FEEDBACK later\n",
      "\n" }

\* FEEDBACK comment lines with a severity, a handle and a date, and without
FeedbackLineChoices ==
    { "# FEEDBACK [" \o S \o "] (@" \o h \o ", " \o D \o "): fix\n" :
        S \in {"CRITICAL", "MAJOR", "MINOR", "NIT"}, h \in {"alice", "bob-2"},
        D \in {"2025-11-23", "2024-02-29"} }
    \cup {"// FEEDBACK\n", "  # FEEDBACK: please rename\n", "# RESPONSE (@bob): done\n"}

\* lines that are no feedback comment, as a sequence of zero or one line
PlainLineChoices == {<<>>, <<"\n">>, <<"x = compute()\n">>}

\* files with one comment line, between plain lines
SingleCommentFiles ==
    {pre \o <<l>> \o post :
        pre \in PlainLineChoices, l \in FeedbackLineChoices, post \in PlainLineChoices}

\* files of at most MaxLines lines
FileBodies == UNION {[1..n -> LineChoices] : n \in 0..MaxLines}

\* the last line of a file may lack its line end (readlines() returns no
\* empty line, so a last line that is only a line end keeps it)
DropLineEnd(body) ==
    [i \in 1..Len(body) |->
        IF i = Len(body) THEN SubSeq(body[i], 1, Len(body[i]) - 1) ELSE body[i]]

ParserInit ==
    /\ \E body \in FileBodies :
          lines \in {body} \cup (IF body # <<>> /\ body[Len(body)] # "\n"
                                 THEN {DropLineEnd(body)} ELSE {})
    /\ line_num = 0
    /\ blocks = <<>>
    /\ current_block = FALSE
    /\ current_lines = <<>>
    /\ block_start = None
    /\ has_feedback = FALSE
    /\ has_response = FALSE
    /\ has_resolved = FALSE
    /\ metadata = EmptyMetadata
    /\ ppc = "scan"

\* parse_file called on a file with one comment line
ParserInitSingle ==
    /\ \E body \in SingleCommentFiles :
          lines \in {body} \cup (IF body[Len(body)] # "\n"
                                 THEN {DropLineEnd(body)} ELSE {})
    /\ line_num = 0
    /\ blocks = <<>>
    /\ current_block = FALSE
    /\ current_lines = <<>>
    /\ block_start = None
    /\ has_feedback = FALSE
    /\ has_response = FALSE
    /\ has_resolved = FALSE
    /\ metadata = EmptyMetadata
    /\ ppc = "scan"

ParserIdle ==
    /\ lines = <<>>
    /\ line_num = 0
    /\ blocks = <<>>
    /\ current_block = FALSE
    /\ current_lines = <<>>
    /\ block_start = None
    /\ has_feedback = FALSE
    /\ has_response = FALSE
    /\ has_resolved = FALSE
    /\ metadata = EmptyMetadata
    /\ ppc = "done"


\* the line the for loop handles next
NextLine == lines[line_num + 1]

\* "if comment_type == 'FEEDBACK'" without "and not has_feedback"
ParsesMetadataEveryTime(comment_type, fb) == comment_type = "FEEDBACK"

\* "Parse metadata from first FEEDBACK line" (line 193)
ParsesMetadata(comment_type, fb) == comment_type = "FEEDBACK" /\ ~fb

\* One iteration of the loop, "if comment_type:" branch (lines 180-199)
ParseFeedbackLine ==
    /\ ppc = "scan"
    /\ line_num < Len(lines)
    /\ is_feedback_line(NextLine) # None
    /\ LET comment_type == is_feedback_line(NextLine)[1]
           opening == ~current_block
           \* the values after "if current_block is None:"
           fb  == IF opening THEN FALSE ELSE has_feedback
           rsp == IF opening THEN FALSE ELSE has_response
           rsv == IF opening THEN FALSE ELSE has_resolved
           md  == IF opening THEN EmptyMetadata ELSE metadata
       IN  /\ current_block' = TRUE
           /\ block_start' = IF opening THEN Some(line_num + 1) ELSE block_start
           /\ current_lines' = Append(current_lines, rstrip(NextLine))
           /\ IF ParsesMetadata(comment_type, fb)
              THEN /\ metadata' = parse_metadata(NextLine)
                   /\ has_feedback' = TRUE
                   /\ has_response' = rsp
                   /\ has_resolved' = rsv
              ELSE /\ metadata' = md
                   /\ has_feedback' = fb
                   /\ has_response' = (rsp \/ comment_type = "RESPONSE")
                   /\ has_resolved' = (rsv \/ comment_type = "RESOLVED")
    /\ line_num' = line_num + 1
    /\ UNCHANGED <<lines, blocks, ppc>>
    /\ UNCHANGED <<filterVars, manifestVars, laterVars>>

\* "if current_lines and block_start is not None:" followed by blocks.append(block)
AppendNothing(bs, start, cur, md, resp, res) == bs

AppendOpenBlock(bs, start, cur, md, resp, res) ==
    IF cur # <<>> /\ start # None
    THEN Append(bs, MakeBlock(start[1], cur, md, resp, res))
    ELSE bs

\* One iteration of the loop, "else:" branch (lines 201-229)
ParseOtherLine ==
    /\ ppc = "scan"
    /\ line_num < Len(lines)
    /\ is_feedback_line(NextLine) = None
    /\ blocks' = AppendOpenBlock(blocks, block_start, current_lines, metadata,
                                 has_response, has_resolved)
    /\ IF current_lines # <<>> /\ block_start # None
       THEN /\ current_lines' = <<>>
            /\ current_block' = FALSE
            /\ block_start' = None
       ELSE UNCHANGED <<current_lines, current_block, block_start>>
    /\ line_num' = line_num + 1
    /\ UNCHANGED <<lines, has_feedback, has_response, has_resolved, metadata, ppc>>
    /\ UNCHANGED <<filterVars, manifestVars, laterVars>>

\* what parse_file appends after the loop, "Handle block at end of file"
BlocksAtReturn(bs, start, cur, md, resp, res) ==
    AppendOpenBlock(bs, start, cur, md, resp, res)

\* The loop is exhausted: lines 231-254
ParseEndOfFile ==
    /\ ppc = "scan"
    /\ line_num = Len(lines)
    /\ blocks' = BlocksAtReturn(blocks, block_start, current_lines, metadata,
                                has_response, has_resolved)
    /\ ppc' = "done"
    /\ UNCHANGED <<lines, line_num, current_block, current_lines, block_start,
                   has_feedback, has_response, has_resolved, metadata>>
    /\ UNCHANGED <<filterVars, manifestVars, laterVars>>

-----------------------------------------------------------------------------
(* What the file holds, read off the input alone *)

\* every line a file or a block of the model may hold: as read, without its
\* line end, and stripped
AllLineChoices ==
    LineChoices \cup FeedbackLineChoices \cup UNION {{p[i] : i \in 1..Len(p)} : p \in PlainLineChoices}

LineForms ==
    AllLineChoices \cup {SubSeq(l, 1, Len(l) - 1) : l \in AllLineChoices}
                   \cup {rstrip(l) : l \in AllLineChoices}

\* the tag each of these lines carries, None for a line that is not a
\* FEEDBACK, RESPONSE or RESOLVED comment line
TagOfLine == [l \in LineForms |-> is_feedback_line(l)]

Tagged(i) == TagOfLine[lines[i]] # None

\* first lines of the maximal runs of consecutive tagged lines
RunStarts == {i \in 1..Len(lines) : Tagged(i) /\ (i = 1 \/ ~Tagged(i - 1))}

\* last line of the run that starts at s
RunEndOf(s) ==
    CHOOSE e \in s..Len(lines) :
        /\ \A j \in s..e : Tagged(j)
        /\ e = Len(lines) \/ ~Tagged(e + 1)

\* runs closed by a non-matching line already consumed, or by the end of input
ClosedRuns ==
    IF ppc = "done" THEN RunStarts
    ELSE {s \in RunStarts : RunEndOf(s) < line_num}

\* the k-th run in line order
KthStart(k) == CHOOSE s \in RunStarts : Cardinality({t \in RunStarts : t < s}) = k - 1

\* the tags carried by the lines of a block
TagsOf(b) == {TagOfLine[b.feedback_lines[i]] : i \in 1..Len(b.feedback_lines)}

-----------------------------------------------------------------------------
(* Claims on parse_file, checked under Spec *)

\* C1: every returned block has status resolved if one of its lines is a
\* RESOLVED line, else responded if one of its lines is a RESPONSE line, else
\* open, whatever the order of its lines and whatever earlier blocks held.
C1_StatusFromTags ==
    \A k \in 1..Len(blocks) :
        blocks[k].status =
            IF Some("RESOLVED") \in TagsOf(blocks[k]) THEN "resolved"
            ELSE IF Some("RESPONSE") \in TagsOf(blocks[k]) THEN "responded"
            ELSE "open"

\* a resolved block whose RESOLVED line precedes its RESPONSE line, followed
\* by an open block
C1_Witness ==
    /\ ppc = "done"
    /\ \E k, j \in 1..Len(blocks) :
        /\ k < j
        /\ Len(blocks[k].feedback_lines) >= 2
        /\ TagOfLine[blocks[k].feedback_lines[1]] = Some("RESOLVED")
        /\ TagOfLine[blocks[k].feedback_lines[2]] = Some("RESPONSE")
        /\ blocks[k].status = "resolved"
        /\ blocks[j].status = "open"

\* C2: the blocks are exactly the maximal runs of consecutive tagged lines, in
\* line order: one block per run closed by a non-matching line or by the end
\* of input, holding the lines of that run; none when no line is tagged.
C2_BlocksAreRuns ==
    /\ Len(blocks) = Cardinality(ClosedRuns)
    /\ \A k \in 1..Len(blocks) :
        LET s == KthStart(k)
            e == RunEndOf(s)
        IN  blocks[k].feedback_lines = [i \in 1..(e - s + 1) |-> rstrip(lines[s + i - 1])]

\* two runs separated by a blank line, the second reaching the end of input
C2_Witness ==
    /\ ppc = "done"
    /\ Len(blocks) = 2
    /\ \E i \in 1..Len(lines) : lines[i] = "\n"
    /\ Tagged(Len(lines))

\* C3: line_start and line_end of a block are the numbers of the first and of
\* the last line of its run, and line_end - line_start + 1 is the number of
\* feedback_lines.
C3_LineNumbers ==
    \A k \in 1..Len(blocks) :
        /\ blocks[k].line_start = KthStart(k)
        /\ blocks[k].line_end = RunEndOf(KthStart(k))
        /\ blocks[k].line_end - blocks[k].line_start + 1 = Len(blocks[k].feedback_lines)

\* a run of several lines that starts after line 1 and ends at the last line
C3_Witness ==
    /\ ppc = "done"
    /\ \E k \in 1..Len(blocks) :
        /\ blocks[k].line_start > 1
        /\ blocks[k].line_end > blocks[k].line_start
        /\ blocks[k].line_end = Len(lines)

-----------------------------------------------------------------------------
(* ingest-repo.py: SecurityFilter *)

\* dict.get(k, default)
Get(d, k, default) == IF k \in DOMAIN d THEN d[k] ELSE default

EmptyDict == [k \in {} |-> TRUE]

\* fnmatch.fnmatch(name, pat) on a POSIX system (normcase is the identity):
\* '*' matches any run of characters, '/' included, '?' any one character,
\* anything else itself; the whole name must match.  The patterns of the
\* model hold no '[' (character classes are not exercised).
RECURSIVE fnmatch(_, _)
fnmatch(name, pat) ==
    IF pat = "" THEN name = ""
    ELSE IF Head(pat) = "*"
         THEN \/ fnmatch(name, Tail(pat))
              \/ name # "" /\ fnmatch(Tail(name), pat)
    ELSE IF Head(pat) = "?"
         THEN name # "" /\ fnmatch(Tail(name), Tail(pat))
    ELSE name # "" /\ Head(name) = Head(pat) /\ fnmatch(Tail(name), Tail(pat))

\* SecurityFilter._matches_allowlist
_matches_allowlist(path, al) == \E i \in 1..Len(al) : fnmatch(path, al[i])

\* SecurityFilter._matches_pattern
_matches_pattern(path, pattern) == fnmatch(path, pattern)

\* os.path.isabs(target)
isabs(target) == StartsWithAt(target, 1, "/")

\* 1024 * 1024
MiB == 1048576

\* large_binary_config.get('max_file_size_mb', 1)
DefaultMaxFileSizeMb == 1

\* size_mb > max_size_mb with size_mb = st_size / (1024 * 1024): the division
\* by a power of two is exact, so the test is st_size > max_size_mb * 2^20
OversizedOrEqual(st_size, max_size_mb) == st_size >= max_size_mb * MiB

Oversized(st_size, max_size_mb) == st_size > max_size_mb * MiB

\* "Block symlinks": lines 53-62.  os.readlink of an existing link succeeds.
SymlinkBlocked(f, gf) ==
    /\ f.islink
    /\ LET symlink_config == Get(gf, "symlinks", EmptyDict)
       IN  /\ Get(symlink_config, "enabled", TRUE)
           /\ Get(symlink_config, "check_symlinks", TRUE)
           /\ isabs(f.target) \/ Contains(f.target, "..")

\* "Check file size limit": lines 72-80
SizeBlocked(f, gf) ==
    LET large_binary_config == Get(gf, "large_binaries", EmptyDict)
    IN  /\ Get(large_binary_config, "enabled", TRUE)
        /\ Oversized(f.size, Get(large_binary_config, "max_file_size_mb",
                                 DefaultMaxFileSizeMb))

\* config.get('enabled', True) of a pattern category
EnabledDefaultOff(config) == Get(config, "enabled", FALSE)

CategoryEnabled(config) == Get(config, "enabled", TRUE)

\* "Check each filter category": lines 83-93
PatternBlocked(f, gf) ==
    \E category \in DOMAIN gf :
        /\ category \notin {"symlinks", "large_binaries"}
        /\ CategoryEnabled(gf[category])
        /\ LET patterns == Get(gf[category], "patterns", <<>>)
           IN  \E i \in 1..Len(patterns) : _matches_pattern(f.rel, patterns[i])

\* the order of the checks with the pattern categories checked before the
\* allowlist
PatternBeforeAllowlist(f, gf, al) ==
    IF SymlinkBlocked(f, gf) THEN [include |-> FALSE, rule |-> "symlink"]
    ELSE IF PatternBlocked(f, gf) THEN [include |-> FALSE, rule |-> "pattern"]
    ELSE IF _matches_allowlist(f.rel, al) THEN [include |-> TRUE, rule |-> "allowlist"]
    ELSE IF SizeBlocked(f, gf) THEN [include |-> FALSE, rule |-> "size"]
    ELSE [include |-> TRUE, rule |-> "default"]

\* SecurityFilter.should_include_file: the value returned, and the return
\* statement that returned it
should_include_file(f, gf, al) ==
    IF SymlinkBlocked(f, gf) THEN [include |-> FALSE, rule |-> "symlink"]
    ELSE IF _matches_allowlist(f.rel, al) THEN [include |-> TRUE, rule |-> "allowlist"]
    ELSE IF SizeBlocked(f, gf) THEN [include |-> FALSE, rule |-> "size"]
    ELSE IF PatternBlocked(f, gf) THEN [include |-> FALSE, rule |-> "pattern"]
    ELSE [include |-> TRUE, rule |-> "default"]

(* The source tree and where its symbolic links lead *)

\* s.split('/')
RECURSIVE Split(_, _)
Split(s, acc) ==
    IF s = "" THEN <<acc>>
    ELSE IF Head(s) = "/" THEN <<acc>> \o Split(Tail(s), "")
    ELSE Split(Tail(s), acc \o Head(s))

\* The checkout is the directory /repo.  Its entry ext is a symbolic link to
\* the directory /etc; every other directory named below is a real one.
RepoRoot == <<"repo">>
DirLink == [from |-> <<"repo", "ext">>, to |-> <<"etc">>]

\* the directory reached from directory cur by the path components comps,
\* as the kernel resolves them
RECURSIVE Walk(_, _)
Walk(cur, comps) ==
    IF comps = <<>> THEN cur
    ELSE LET c == Head(comps)
             nxt == IF c \in {"", "."} THEN cur
                    ELSE IF c = ".."
                         THEN (IF cur = <<>> THEN cur ELSE SubSeq(cur, 1, Len(cur) - 1))
                    ELSE IF Append(cur, c) = DirLink.from THEN DirLink.to
                    ELSE Append(cur, c)
         IN  Walk(nxt, Tail(comps))

\* the directory that holds the file of relative path rel
ParentOf(rel) ==
    LET comps == Split(rel, "")
    IN  RepoRoot \o SubSeq(comps, 1, Len(comps) - 1)

\* where the link f leads: the resolved location, as path components
ResolvedTarget(f) ==
    Walk(IF isabs(f.target) THEN <<>> ELSE ParentOf(f.rel), Split(f.target, ""))

\* the link f leads out of the source tree
ResolvesOutside(f) ==
    /\ f.islink
    /\ LET r == ResolvedTarget(f)
       IN  ~(Len(r) >= Len(RepoRoot) /\ SubSeq(r, 1, Len(RepoRoot)) = RepoRoot)

\* relative paths of the files of a source tree
Paths == {"README.md", "certs/ca.pem", "src/key.env"}

\* what os.readlink may return
Targets == {"/etc/passwd", "../up.txt", "ext/passwd", "LICENSE"}

\* st_size of the files: at, just above and well above one MiB
Sizes == {MiB, MiB + 1, 2 * MiB + 1}

\* every entry rglob may yield for which is_file() holds
Files ==
    [rel : Paths, islink : {FALSE}, target : {""}, size : Sizes]
    \cup [rel : Paths, islink : {TRUE}, target : Targets, size : Sizes]

\* the filter configurations: json documents with keys present or absent
SymlinkChoices ==
    { EmptyDict,
      "symlinks" :> [enabled |-> FALSE],
      "symlinks" :> [check_symlinks |-> FALSE],
      "symlinks" :> [enabled |-> TRUE, check_symlinks |-> TRUE] }
LargeBinaryChoices ==
    { EmptyDict,
      "large_binaries" :> [enabled |-> FALSE, max_file_size_mb |-> 1],
      "large_binaries" :> [max_file_size_mb |-> 2] }
SecretChoices ==
    { "secrets" :> [patterns |-> <<"*.pem", "*.env">>],
      "secrets" :> [enabled |-> FALSE, patterns |-> <<"*.pem", "*.env">>] }
BuildChoices ==
    { EmptyDict,
      "build_artifacts" :> [enabled |-> TRUE, patterns |-> <<"src/*", "?EADME*">>],
      "build_artifacts" :> [enabled |-> TRUE] }
GlobalFilterChoices ==
    { a @@ b @@ c @@ d : a \in SymlinkChoices, b \in LargeBinaryChoices,
                         c \in SecretChoices, d \in BuildChoices }
AllowlistChoices == { <<>>, <<"README.md", "certs/*.pem">> }

NoFile == [rel |-> "", islink |-> FALSE, target |-> "", size |-> 0]
NoVerdict == [include |-> FALSE, rule |-> "none"]

FilterInit ==
    /\ global_filters \in GlobalFilterChoices
    /\ allowlist \in AllowlistChoices
    /\ visited = {}
    /\ dest = {}
    /\ stats = [included |-> 0, filtered |-> 0]
    /\ file = NoFile
    /\ verdict = NoVerdict

FilterIdle ==
    /\ global_filters = EmptyDict
    /\ allowlist = <<>>
    /\ visited = {}
    /\ dest = {}
    /\ stats = [included |-> 0, filtered |-> 0]
    /\ file = NoFile
    /\ verdict = NoVerdict

\* copy_filtered_files, one turn of the loop with should_include_file true:
\* the file is copied to dest_dir under its relative path
CopyIncludedFile ==
    /\ Cardinality(visited) < MaxFiles
    /\ \E f \in Files :
        /\ f.rel \notin visited
        /\ should_include_file(f, global_filters, allowlist).include
        /\ file' = f
        /\ verdict' = should_include_file(f, global_filters, allowlist)
        /\ visited' = visited \cup {f.rel}
        /\ dest' = dest \cup {f.rel}
        /\ stats' = [stats EXCEPT !.included = @ + 1]
    /\ UNCHANGED <<global_filters, allowlist>>
    /\ UNCHANGED <<parserVars, manifestVars, laterVars>>

\* copy_filtered_files, one turn of the loop with should_include_file false
SkipFilteredFile ==
    /\ Cardinality(visited) < MaxFiles
    /\ \E f \in Files :
        /\ f.rel \notin visited
        /\ ~should_include_file(f, global_filters, allowlist).include
        /\ file' = f
        /\ verdict' = should_include_file(f, global_filters, allowlist)
        /\ visited' = visited \cup {f.rel}
        /\ stats' = [stats EXCEPT !.filtered = @ + 1]
    /\ UNCHANGED <<global_filters, allowlist, dest>>
    /\ UNCHANGED <<parserVars, manifestVars, laterVars>>

-----------------------------------------------------------------------------
(* ingest-repo.py: RepoIngestion, the repository name *)

\* str.rstrip(chars): chars is a set of characters, not a suffix
RECURSIVE RStripChars(_, _)
RStripChars(s, chars) ==
    IF Len(s) > 0 /\ Char(s, Len(s)) \in chars
    THEN RStripChars(SubSeq(s, 1, Len(s) - 1), chars)
    ELSE s

AlphabetLower == "abcdefghijklmnopqrstuvwxyz"
AlphabetUpper == "ABCDEFGHIJKLMNOPQRSTUVWXYZ"

\* str.lower()
RECURSIVE ToLower(_)
ToLower(s) ==
    IF s = "" THEN ""
    ELSE IF Len(s) = 1
    THEN LET k == {i \in 1..Len(AlphabetUpper) : Char(AlphabetUpper, i) = s}
         IN  IF k = {} THEN s ELSE Char(AlphabetLower, Min(k))
    ELSE LET h == Len(s) \div 2
         IN  ToLower(SubSeq(s, 1, h)) \o ToLower(SubSeq(s, h + 1, Len(s)))

\* urllib.parse.urlparse(url).scheme: the text before the first ':' when it
\* starts with a letter and holds only letters, digits, '+', '-' and '.'
UrlScheme(url) ==
    LET colons == {i \in 1..Len(url) : Char(url, i) = ":"}
    IN  IF colons = {} THEN ""
        ELSE LET i == Min(colons)
             IN  IF /\ i > 1
                    /\ Char(url, 1) \in Lower \cup Upper
                    /\ \A j \in 1..(i - 1) :
                          Char(url, j) \in Lower \cup Upper \cup Digit \cup {"+", "-", "."}
                 THEN ToLower(SubSeq(url, 1, i - 1))
                 ELSE ""

\* RepoIngestion._validate_url: TRUE when no ValueError is raised
_validate_url(url) ==
    UrlScheme(url) # "" => UrlScheme(url) \in {"http", "https", "git", "ssh"}

\* parts = url.rstrip('/').rstrip('.git').split('/'); raw_name = parts[-1]
RawName(url) ==
    LET parts == Split(RStripChars(RStripChars(url, {"/"}), {".", "g", "i", "t"}), "")
    IN  parts[Len(parts)]

\* the sanitising step left out
SanitizeNothing(raw_name) == raw_name

\* re.sub(r'[^a-zA-Z0-9_-]', '-', raw_name)
RECURSIVE Sanitize(_)
Sanitize(raw_name) ==
    IF raw_name = "" THEN ""
    ELSE (IF Head(raw_name) \in Lower \cup Upper \cup Digit \cup {"_", "-"}
          THEN Head(raw_name) ELSE "-") \o Sanitize(Tail(raw_name))

\* RepoIngestion._extract_and_sanitize_repo_name: ok is FALSE when it raises
\* ValueError
_extract_and_sanitize_repo_name(url) ==
    LET raw_name == RawName(url)
        sanitized == Sanitize(raw_name)
    IN  IF Contains(url, "..") THEN [ok |-> FALSE, name |-> ""]
        ELSE IF raw_name = "" \/ raw_name \in {".", ".."} THEN [ok |-> FALSE, name |-> ""]
        ELSE IF \/ StartsWithAt(sanitized, 1, ".")
                \/ Contains(sanitized, "/")
                \/ Contains(sanitized, "\\")
                \/ sanitized = ""
             THEN [ok |-> FALSE, name |-> ""]
        ELSE [ok |-> TRUE, name |-> sanitized]

-----------------------------------------------------------------------------
(* The manifest: ingest-repo.py (_update_manifest) and                     *)
(* remove-ingested-repo.py (main), run as concurrent invocations           *)

\* the invocations that may run at the same time
Procs == {1, 2}

\* repo_url arguments
Urls ==
    { "https://github.com/org/repo.git",
      "git@github.com:org/my.repo/",
      "https://github.com/org/../etc",
      "https://github.com/org/git/" }

\* --version arguments
Versions == {"main", "v1"}

\* repo arguments of remove-ingested-repo.py
RemoveNames == {"repo", "my-repo", "../etc"}

\* get_commit_info: what 'git log -1' prints at the checked-out version
get_commit_info(version) ==
    IF version = "main"
    THEN [commit_sha |-> "9f2c41", commit_date |-> "2025-11-23 10:00:00 +0000"]
    ELSE [commit_sha |-> "07ab3e", commit_date |-> "2025-06-01 09:30:00 +0000"]

\* The file on disk: absent, empty (opened for writing and not yet written),
\* garbled (two writers wrote over each other) or a json document
AbsentFile    == [state |-> "absent",    repositories |-> EmptyDict]
TruncatedFile == [state |-> "truncated", repositories |-> EmptyDict]
GarbledFile   == [state |-> "garbled",   repositories |-> EmptyDict]
JsonFile(repos) == [state |-> "json", repositories |-> repos]

NoCommit == [commit_sha |-> "", commit_date |-> ""]
IdleProc ==
    [pc |-> "idle", op |-> "none", repo_url |-> "", version |-> "", repo_name |-> "",
     commit_info |-> NoCommit, manifest |-> EmptyDict, exit |-> -1]

NoWrite == [writer |-> 0, name |-> "", loaded |-> EmptyDict, written |-> EmptyDict,
            missed |-> {}]
FreshHist == [loaded |-> EmptyDict, missed |-> {}, wrote |-> FALSE]

ManifestInit ==
    /\ manifest \in {AbsentFile, JsonFile(EmptyDict)}
    /\ proc = [p \in Procs |-> IdleProc]
    /\ clock = 0
    /\ hist = [last |-> NoWrite, per |-> [p \in Procs |-> FreshHist]]

ManifestIdle ==
    /\ manifest = AbsentFile
    /\ proc = [p \in Procs |-> IdleProc]
    /\ clock = 0
    /\ hist = [last |-> NoWrite, per |-> [p \in Procs |-> FreshHist]]

Running(p) == proc[p].pc \notin {"idle", "exited"}

\* a new invocation may start in slot p: the lowest slot that is free (which
\* slot an invocation takes does not matter)
CanStart(p) ==
    /\ ~Running(p)
    /\ \A q \in Procs : q < p => Running(q)
    /\ clock < MaxClock

\* the process ends: its local variables are gone, its exit code remains
Exited(p, code) ==
    [proc EXCEPT ![p] = [IdleProc EXCEPT !.pc = "exited", !.op = proc[p].op,
                                         !.exit = code]]

\* main of ingest-repo.py up to RepoIngestion.__init__ raising ValueError
\* (lines 388, 393): caught at line 682, exit code 2
BeginIngestRejected(p) ==
    /\ CanStart(p)
    /\ \E url \in Urls :
        /\ ~(_validate_url(url) /\ _extract_and_sanitize_repo_name(url).ok)
        /\ proc' = [proc EXCEPT ![p] =
                       [IdleProc EXCEPT !.pc = "exited", !.op = "ingest", !.repo_url = url,
                                        !.exit = 2]]
    /\ clock' = clock + 1
    /\ hist' = [hist EXCEPT !.per[p] = FreshHist]
    /\ UNCHANGED manifest
    /\ UNCHANGED <<parserVars, filterVars, laterVars>>

\* main of ingest-repo.py up to the call of ingest()
BeginIngest(p) ==
    /\ CanStart(p)
    /\ \E url \in Urls, version \in Versions :
        /\ _validate_url(url)
        /\ _extract_and_sanitize_repo_name(url).ok
        /\ proc' = [proc EXCEPT ![p] =
                       [IdleProc EXCEPT !.pc = "workflow", !.op = "ingest", !.repo_url = url,
                                        !.version = version,
                                        !.repo_name = _extract_and_sanitize_repo_name(url).name]]
    /\ clock' = clock + 1
    /\ hist' = [hist EXCEPT !.per[p] = FreshHist]
    /\ UNCHANGED manifest
    /\ UNCHANGED <<parserVars, filterVars, laterVars>>

\* ingest(), lines 480-511: clone or fetch, checkout, commit lookup, filtered
\* copy and CONTEXT.md all succeed
IngestWorkflowDone(p) ==
    /\ proc[p].pc = "workflow"
    /\ proc' = [proc EXCEPT ![p].pc = "load",
                            ![p].commit_info = get_commit_info(proc[p].version)]
    /\ UNCHANGED <<manifest, clock, hist>>
    /\ UNCHANGED <<parserVars, filterVars, laterVars>>

\* ingest(), lines 480-511: a step raises; main returns 1 (git) or 3 (other)
IngestWorkflowFails(p) ==
    /\ proc[p].pc = "workflow"
    /\ \E code \in {1, 3} : proc' = Exited(p, code)
    /\ UNCHANGED <<manifest, clock, hist>>
    /\ UNCHANGED <<parserVars, filterVars, laterVars>>

\* the entry _update_manifest stores
ManifestEntry(pr, now) ==
    [url |-> pr.repo_url, version |-> pr.version,
     commit_sha |-> pr.commit_info.commit_sha,
     commit_date |-> pr.commit_info.commit_date,
     ingested_at |-> now]

\* "Load existing manifest or create new" ignoring the file on disk
LoadNothing(m) == EmptyDict

\* "Load existing manifest or create new": manifest['repositories']
LoadRepositories(m) == IF m.state = "absent" THEN EmptyDict ELSE m.repositories

\* d[k] = v
DictSet(d, k, v) == [x \in DOMAIN d \cup {k} |-> IF x = k THEN v ELSE d[x]]
\* data['repositories'] = {}
DictDelAll(d, k) == EmptyDict

\* del d[k]
DictDel(d, k) == [x \in DOMAIN d \ {k} |-> d[x]]

\* what is on disk at the time of a load, as json.load would return it
OnDisk == IF manifest.state = "json" THEN manifest.repositories ELSE EmptyDict

\* _update_manifest, lines 544-557: load and set the entry.  json.load of an
\* empty or garbled file raises JSONDecodeError, a ValueError: exit code 2
UpdateManifestLoad(p) ==
    /\ proc[p].pc = "load"
    /\ IF manifest.state \in {"truncated", "garbled"}
       THEN /\ proc' = Exited(p, 2)
            /\ hist' = hist
       ELSE /\ proc' = [proc EXCEPT
                          ![p].pc = "open",
                          ![p].manifest = DictSet(LoadRepositories(manifest),
                                                  proc[p].repo_name,
                                                  ManifestEntry(proc[p], clock))]
            /\ hist' = [hist EXCEPT !.per[p].loaded = OnDisk]
    /\ UNCHANGED <<manifest, clock>>
    /\ UNCHANGED <<parserVars, filterVars, laterVars>>

\* open(manifest_path, 'w'): the file is emptied
OpenForWriting(p, from, to) ==
    /\ proc[p].pc = from
    /\ manifest' = TruncatedFile
    /\ proc' = [proc EXCEPT ![p].pc = to]
    /\ UNCHANGED <<clock, hist>>

\* json.dump and the close of the file: the document is written at offset 0.
\* A file another writer filled since this writer's open may end up garbled.
DumpAndClose(p, from) ==
    /\ proc[p].pc = from
    /\ manifest' \in IF manifest.state = "truncated"
                     THEN {JsonFile(proc[p].manifest)}
                     ELSE {JsonFile(proc[p].manifest), GarbledFile}
    /\ proc' = Exited(p, 0)
    /\ hist' = [last |-> [writer |-> p, name |-> proc[p].repo_name,
                          loaded |-> hist.per[p].loaded,
                          written |-> proc[p].manifest,
                          missed |-> hist.per[p].missed],
                per |-> [q \in Procs |->
                           IF q = p THEN [FreshHist EXCEPT !.wrote = TRUE]
                           ELSE IF proc[q].pc \in {"open", "dump", "rm_open", "rm_dump"}
                                THEN [hist.per[q] EXCEPT !.missed =
                                        @ \cup {[name |-> proc[p].repo_name,
                                                 op |-> proc[p].op]}]
                                ELSE hist.per[q]]]
    /\ UNCHANGED clock

\* _update_manifest, line 560
UpdateManifestOpen(p) ==
    /\ OpenForWriting(p, "open", "dump")
    /\ UNCHANGED <<parserVars, filterVars, laterVars>>

\* _update_manifest, lines 561-562, then ingest() returns and main returns 0
UpdateManifestDump(p) ==
    /\ DumpAndClose(p, "dump")
    /\ UNCHANGED <<parserVars, filterVars, laterVars>>

\* remove-ingested-repo.py main, lines 16-25 and 30-33: no manifest, or the
\* name is not in it: return 0 without writing; an empty or garbled file
\* makes json.load raise, which nothing catches: exit code 1
BeginRemove(p) ==
    /\ CanStart(p)
    /\ \E name \in RemoveNames :
        LET started == [IdleProc EXCEPT !.op = "remove"]
            removing == manifest.state = "json" /\ name \in DOMAIN manifest.repositories
        IN  /\ proc' = [proc EXCEPT ![p] =
                    IF manifest.state = "absent"
                    THEN [started EXCEPT !.pc = "exited", !.exit = 0]
                    ELSE IF manifest.state \in {"truncated", "garbled"}
                    THEN [started EXCEPT !.pc = "exited", !.exit = 1]
                    ELSE IF name \in DOMAIN manifest.repositories
                    THEN [started EXCEPT !.pc = "rm_open", !.repo_name = name,
                                         !.manifest = DictDel(manifest.repositories, name)]
                    ELSE [started EXCEPT !.pc = "exited", !.exit = 0]]
            /\ hist' = [hist EXCEPT !.per[p] =
                          IF removing THEN [FreshHist EXCEPT !.loaded = OnDisk]
                          ELSE FreshHist]
    /\ clock' = clock + 1
    /\ UNCHANGED manifest
    /\ UNCHANGED <<parserVars, filterVars, laterVars>>

\* remove-ingested-repo.py main, line 26
RemoveOpen(p) ==
    /\ OpenForWriting(p, "rm_open", "rm_dump")
    /\ UNCHANGED <<parserVars, filterVars, laterVars>>

\* remove-ingested-repo.py main, lines 27-33
RemoveDump(p) ==
    /\ DumpAndClose(p, "rm_dump")
    /\ UNCHANGED <<parserVars, filterVars, laterVars>>

-----------------------------------------------------------------------------
(* feedback_parser.py: parse_metadata called on a line of its own *)

\* what a comment line may hold where a severity label is expected
SeverityTexts ==
    {"", "[CRITICAL]", "[MAJOR]", "[MINOR]", "[NIT]",
     "[critical]", "MAJOR", "[BLOCKER]", "[ NIT ]"}
\* ... where a reviewer handle is expected
ReviewerTexts == {"", "@alice", "@bob-2", "alice@"}
\* ... where a date is expected
DateTexts == {"", "2025-11-23", "2025-1-23", "23-11-2025"}

\* the argument lines: two label positions, a reviewer and a date
MetadataLines ==
    { "# FEEDBACK " \o s1 \o " " \o s2 \o " (" \o r \o ", " \o d \o "): fix" :
        s1 \in SeverityTexts, s2 \in SeverityTexts, r \in ReviewerTexts, d \in DateTexts }

MetadataInit ==
    /\ md_line \in MetadataLines
    /\ md_result = None

MetadataIdle ==
    /\ md_line = ""
    /\ md_result = None

\* metadata = parser.parse_metadata(line)
CallParseMetadata ==
    /\ md_result = None
    /\ md_result' = Some(parse_metadata(md_line))
    /\ UNCHANGED md_line
    /\ UNCHANGED <<parserVars, filterVars, manifestVars, repoVars, planVars, mainVars,
                   thirdVars>>

-----------------------------------------------------------------------------
(* feedback_parser.py: parse_repository and the files parse_file cannot read *)

\* paths git grep may name, in its output order
RepoPaths == <<"a.py", "b.md", "c.js", "d.css", "e.txt">>

\* what open() and readlines() meet at a path: a text, no file (removed since
\* git grep ran), a file without read permission, bytes that are not UTF-8
RepoContents ==
    { [kind |-> "text",    lines |-> <<"# FEEDBACK [CRITICAL] (@alice, 2025-11-23): fix\n">>],
      [kind |-> "text",    lines |-> <<"# RESPONSE (@bob): done\n", "\n",
                                       "<!-- FEEDBACK [MINOR] -->\n">>],
      [kind |-> "missing", lines |-> <<>>],
      [kind |-> "denied",  lines |-> <<>>],
      [kind |-> "binary",  lines |-> <<>>] }

\* the lists find_files_with_feedback may return
RepoFileLists ==
    UNION { { [i \in 1..n |-> [path |-> RepoPaths[i], kind |-> c[i].kind,
                               lines |-> c[i].lines]] : c \in [1..n -> RepoContents] } :
            n \in 1..MaxRepoFiles }

\* "except IOError" alone: UnicodeDecodeError escapes
CaughtIOErrorOnly(kind) == kind \in {"missing", "denied"}

\* "except (IOError, UnicodeDecodeError)": FileNotFoundError and
\* PermissionError are OSError, which IOError names
Caught(kind) == kind \in {"missing", "denied", "binary"}

\* parse_repository after lines 258-259
RepoInit ==
    /\ repo_files \in RepoFileLists
    /\ file_idx = 0
    /\ feedback_blocks = <<>>
    /\ rpc = "loop"

RepoIdle ==
    /\ repo_files = <<>>
    /\ file_idx = 0
    /\ feedback_blocks = <<>>
    /\ rpc = "idle"

\* parse_file called on the next file, lines 160-175: the file is read
ParseFileOpen ==
    /\ rpc = "loop"
    /\ file_idx < Len(repo_files)
    /\ repo_files[file_idx + 1].kind = "text"
    /\ file_idx' = file_idx + 1
    /\ rpc' = "parse"
    /\ lines' = repo_files[file_idx + 1].lines
    /\ line_num' = 0
    /\ blocks' = <<>>
    /\ current_block' = FALSE
    /\ current_lines' = <<>>
    /\ block_start' = None
    /\ has_feedback' = FALSE
    /\ has_response' = FALSE
    /\ has_resolved' = FALSE
    /\ metadata' = EmptyMetadata
    /\ ppc' = "scan"
    /\ UNCHANGED <<repo_files, feedback_blocks>>
    /\ UNCHANGED <<filterVars, manifestVars, metadataVars, planVars, mainVars, thirdVars>>

\* parse_file called on the next file, lines 160-167: open or readlines
\* raises; a caught exception returns the empty list, another one leaves
\* parse_repository
ParseFileUnreadable ==
    /\ rpc = "loop"
    /\ file_idx < Len(repo_files)
    /\ repo_files[file_idx + 1].kind # "text"
    /\ file_idx' = file_idx + 1
    /\ rpc' = IF Caught(repo_files[file_idx + 1].kind) THEN "parse" ELSE "raised"
    /\ blocks' = <<>>
    /\ UNCHANGED <<lines, line_num, current_block, current_lines, block_start,
                   has_feedback, has_response, has_resolved, metadata, ppc>>
    /\ UNCHANGED <<repo_files, feedback_blocks>>
    /\ UNCHANGED <<filterVars, manifestVars, metadataVars, planVars, mainVars, thirdVars>>

\* self.feedback_blocks.extend(blocks), line 263; the locals of parse_file
\* are gone
ExtendFeedbackBlocks ==
    /\ rpc = "parse"
    /\ ppc = "done"
    /\ feedback_blocks' = feedback_blocks \o blocks
    /\ rpc' = IF file_idx = Len(repo_files) THEN "done" ELSE "loop"
    /\ lines' = <<>>
    /\ line_num' = 0
    /\ blocks' = <<>>
    /\ current_block' = FALSE
    /\ current_lines' = <<>>
    /\ block_start' = None
    /\ has_feedback' = FALSE
    /\ has_response' = FALSE
    /\ has_resolved' = FALSE
    /\ metadata' = EmptyMetadata
    /\ UNCHANGED <<ppc, repo_files, file_idx>>
    /\ UNCHANGED <<filterVars, manifestVars, metadataVars, planVars, mainVars, thirdVars>>

-----------------------------------------------------------------------------
(* planworktree.py: the plan document and its metadata *)

\* the two stages a plan of the model may declare
StageOne ==
    ("id" :> "s1") @@ ("name" :> "One") @@ ("branch" :> "feat/one")
        @@ ("worktree_path" :> "/wt/one") @@ ("status" :> "todo")
StageTwo ==
    ("id" :> "s2") @@ ("name" :> "Two") @@ ("branch" :> "feat/two")
        @@ ("worktree_path" :> "/wt/two") @@ ("status" :> "todo")

\* the fields a stage is required to carry
RequiredFields == {"id", "name", "branch", "worktree_path", "status"}

\* a stage as written, and with one required field left out
StageVariants(st) == {st} \cup {DictDel(st, k) : k \in RequiredFields}

\* the stage lists of the plans: one or two stages, at most one of them
\* lacking a field, the second with or without a dependency on the first
StageLists ==
    {<<a>> : a \in StageVariants(StageOne)}
    \cup {<<a, b>> : a \in StageVariants(StageOne), b \in {StageTwo}}
    \cup {<<a, b @@ ("depends_on" :> <<"s1">>)>> :
              a \in StageVariants(StageOne), b \in {StageTwo}}
    \cup {<<a, b>> : a \in {StageOne}, b \in StageVariants(StageTwo)}
    \cup {<<a, b @@ ("depends_on" :> <<"s1">>)>> :
              a \in {StageOne}, b \in StageVariants(StageTwo)}

\* the order in which the keys of a stage are written
StageKeys == <<"id", "name", "branch", "worktree_path", "status", "depends_on">>

\* the items of a JSON array or object, separated by commas
RECURSIVE JoinComma(_)
JoinComma(items) ==
    IF Len(items) = 0 THEN ""
    ELSE IF Len(items) = 1 THEN items[1]
    ELSE items[1] \o ", " \o JoinComma(Tail(items))

Quoted(str) == "\"" \o str \o "\""

\* the keys of StageKeys from index i on that the stage carries, as JSON members
RECURSIVE StageMembers(_, _)
StageMembers(st, i) ==
    IF i > Len(StageKeys) THEN <<>>
    ELSE LET k == StageKeys[i]
         IN  (IF k \notin DOMAIN st THEN <<>>
              ELSE IF k = "depends_on"
              THEN <<Quoted(k) \o ": [" \o
                     JoinComma([j \in 1..Len(st[k]) |-> Quoted(st[k][j])]) \o "]">>
              ELSE <<Quoted(k) \o ": " \o Quoted(st[k])>>)
             \o StageMembers(st, i + 1)

\* the JSON text of a plan with these stages
PlanJson(stages) ==
    "{\"plan_id\": \"p1\", \"status\": \"active\", \"stages\": ["
        \o JoinComma([j \in 1..Len(stages) |->
                         "{" \o JoinComma(StageMembers(stages[j], 1)) \o "}"])
        \o "]}"

\* texts that are not JSON: cut short, unquoted key, empty
InvalidJsonTexts ==
    { "{\"plan_id\": \"p1\", \"stages\": [", "{stages: []}", "" }

PlanOf(stages) == [plan_id |-> "p1", status |-> "active", stages |-> stages]

\* a decoder that answers an empty plan where json.loads raises
JsonLoadsLenient(text) ==
    LET vs == {v \in StageLists : PlanJson(v) = text}
    IN  IF vs = {} THEN [ok |-> TRUE, value |-> PlanOf(<<>>)]
        ELSE [ok |-> TRUE, value |-> PlanOf(CHOOSE v \in vs : TRUE)]

\* json.loads on the texts of the model: the plan a text denotes, or
\* JSONDecodeError (ok is FALSE)
json_loads(text) ==
    LET vs == {v \in StageLists : PlanJson(v) = text}
    IN  IF vs = {} THEN [ok |-> FALSE, value |-> PlanOf(<<>>)]
        ELSE [ok |-> TRUE, value |-> PlanOf(CHOOSE v \in vs : TRUE)]

Max(S) == CHOOSE i \in S : \A j \in S : i >= j

\* three backquotes (in a TLA+ string a backquote must be closed by a quote)
Fence == SubSeq("```'", 1, 3)

FenceTag == Fence \o "json metadata"
FenceEnd == "\n" \o Fence

\* the pattern <fence>json metadata\s*\n(.*?)\n<fence> tried at index i of content:
\* None, or the text of group 1.  The white space after the tag is matched up
\* to its last line end from which the rest can match; the group ends at the
\* first closing fence
FenceMatchAt(content, i) ==
    LET j  == i + Len(FenceTag)
        w  == SkipSpace(content, j)
        ks == {k \in j..(w - 1) :
                  /\ Char(content, k) = "\n"
                  /\ \E e \in (k + 1)..Len(content) : StartsWithAt(content, e, FenceEnd)}
    IN  IF ~StartsWithAt(content, i, FenceTag) \/ ks = {} THEN None
        ELSE LET k == Max(ks)
                 e == Min({x \in (k + 1)..Len(content) : StartsWithAt(content, x, FenceEnd)})
             IN  Some(SubSeq(content, k + 1, e - 1))

\* re.search(pattern, content, re.DOTALL)
FenceSearch(content) ==
    LET hits == {i \in 1..Len(content) : FenceMatchAt(content, i) # None}
    IN  IF hits = {} THEN None ELSE FenceMatchAt(content, Min(hits))

\* parse_plan_metadata: None, or the metadata
parse_plan_metadata(content) ==
    LET match == FenceSearch(content)
    IN  IF match = None THEN None
        ELSE IF json_loads(match[1]).ok THEN Some(json_loads(match[1]).value)
        ELSE None

\* a plan file with a metadata block that holds this text
DocWithBlock(text) ==
    "# Plan\n\n" \o FenceTag \o "\n" \o text \o FenceEnd \o "\n\n## Stages\n"

\* plan files without a metadata block: no fence, a fence with another tag,
\* a fence that is never closed
NoBlockDocs ==
    { "# Plan\n\nNo stages yet.\n",
      "# Plan\n\n" \o Fence \o "json\n" \o PlanJson(<<StageOne>>) \o FenceEnd \o "\n",
      "# Plan\n\n" \o FenceTag \o "\n" \o PlanJson(<<StageOne>>) }

InvalidJsonDocs == {DocWithBlock(t) : t \in InvalidJsonTexts}

PlanDocs == {DocWithBlock(PlanJson(v)) : v \in StageLists} \cup NoBlockDocs \cup InvalidJsonDocs

\* what parse_plan_metadata returns for each plan file of the model
ParsedPlan == [d \in PlanDocs |-> parse_plan_metadata(d)]

-----------------------------------------------------------------------------
(* planworktree.py: the worktrees, create_worktree and the four commands *)

\* what is at a path: nothing, a directory that is no worktree, a worktree of
\* the repository on a branch, with or without .claude/plans/CURRENT_STAGE.md
NoEntry  == [kind |-> "absent", branch |-> "", link |-> FALSE]
PlainDir == [kind |-> "dir", branch |-> "", link |-> FALSE]
WorktreeAt(branch, link) == [kind |-> "worktree", branch |-> branch, link |-> link]

\* the worktree paths the stages declare, and their parent directory
WtPaths == {"/wt/one", "/wt/two"}
WtParent == "/wt"

\* Path.parent of an absolute path
PathParent(path) ==
    LET slashes == {i \in 1..Len(path) : Char(path, i) = "/"}
    IN  IF Max(slashes) = 1 THEN "/" ELSE SubSeq(path, 1, Max(slashes) - 1)

\* the existence test answering no for every path
PathExistsNever(f, path) == FALSE

\* worktree_path.exists()
PathExists(f, path) == f[path].kind # "absent"

\* the loop of get_stage_by_id from stage i on: stage['id'] raises KeyError
\* on a stage without id
RECURSIVE StageLookup(_, _, _)
StageLookup(stages, stage_id, i) ==
    IF i > Len(stages) THEN [raised |-> FALSE, idx |-> 0]
    ELSE IF "id" \notin DOMAIN stages[i] THEN [raised |-> TRUE, idx |-> 0]
    ELSE IF stages[i]["id"] = stage_id THEN [raised |-> FALSE, idx |-> i]
    ELSE StageLookup(stages, stage_id, i + 1)

\* get_stage_by_id: idx is 0 for None
get_stage_by_id(md, stage_id) == StageLookup(md.stages, stage_id, 1)

\* lines 172-179: the names of the dependencies are looked up; KeyError when
\* the lookup meets a stage without id or the dependency has no name
DependencyLookupRaises(stage, md) ==
    LET dependencies == Get(stage, "depends_on", <<>>)
    IN  \E j \in 1..Len(dependencies) :
            LET r == get_stage_by_id(md, dependencies[j])
            IN  \/ r.raised
                \/ r.idx # 0 /\ "name" \notin DOMAIN md.stages[r.idx]

\* create_worktree on a repository with directories f and branches br, where
\* git worktree add succeeds or not (git_ok) and the link can be made or the
\* checked-out tree already holds the file (link_ok).  result is "True",
\* "False", or "raised" for an exception that leaves create_worktree; git is
\* the list of the git commands run
create_worktree(stage, md, f, br, git_ok, link_ok) ==
    IF ~({"id", "name", "branch", "worktree_path"} \subseteq DOMAIN stage)
    THEN [result |-> "raised", fs |-> f, branches |-> br, git |-> <<>>]
    ELSE IF DependencyLookupRaises(stage, md)
    THEN [result |-> "raised", fs |-> f, branches |-> br, git |-> <<>>]
    ELSE
      LET branch == stage["branch"]
          worktree_path == stage["worktree_path"]
          \* worktree_path.parent.mkdir(parents=True, exist_ok=True)
          f1 == [f EXCEPT ![PathParent(worktree_path)] = PlainDir]
      IN  IF PathExists(f1, worktree_path)
          THEN [result |-> "True", fs |-> f1, branches |-> br, git |-> <<>>]
          ELSE
            LET branch_exists == branch \in br
                git == << "show-ref --verify refs/heads/" \o branch,
                          IF branch_exists
                          THEN "worktree add " \o worktree_path \o " " \o branch
                          ELSE "worktree add -b " \o branch \o " " \o worktree_path >>
            IN  IF ~git_ok
                THEN [result |-> "False", fs |-> f1, branches |-> br, git |-> git]
                ELSE IF ~link_ok
                THEN [result |-> "raised",
                      fs |-> [f1 EXCEPT ![worktree_path] = WorktreeAt(branch, FALSE)],
                      branches |-> br \cup {branch}, git |-> git]
                ELSE [result |-> "True",
                      fs |-> [f1 EXCEPT ![worktree_path] = WorktreeAt(branch, TRUE)],
                      branches |-> br \cup {branch}, git |-> git]

\* the branches, worktrees and links a call has made
MadeBy(f, br, out) ==
    {"branch " \o b : b \in out.branches \ br}
    \cup {"worktree " \o q : q \in {x \in WtPaths :
                                out.fs[x].kind = "worktree" /\ f[x].kind # "worktree"}}
    \cup {"link " \o q : q \in {x \in WtPaths : out.fs[x].link /\ ~f[x].link}}

\* no create_worktree call in the running command yet
NoCall == [idx |-> 0, path |-> "", branch |-> "", existed |-> FALSE, before |-> NoEntry,
           br_before |-> {}, git |-> <<>>, result |-> "none"]

\* the record of a create_worktree call on stage idx
CallRecord(idx, stage, f, br, out) ==
    LET declared == {"branch", "worktree_path"} \subseteq DOMAIN stage
        existed  == declared /\ f[stage["worktree_path"]].kind # "absent"
    IN  [idx |-> idx,
         path |-> IF declared THEN stage["worktree_path"] ELSE "",
         branch |-> IF declared THEN stage["branch"] ELSE "",
         existed |-> existed,
         before |-> IF existed THEN f[stage["worktree_path"]] ELSE NoEntry,
         br_before |-> IF existed THEN br ELSE {},
         git |-> out.git,
         result |-> out.result]

\* stage-id arguments of setup
StageIdArgs == {"s1", "s2", "s9"}

IdlePw == [pc |-> "idle", cmd |-> "", arg |-> "", i |-> 0, failures |-> <<>>,
           exit |-> -1, err |-> "", made |-> {}, runs |-> 0]

PlanInit ==
    /\ plan_doc \in PlanDocs
    /\ \E one \in {NoEntry, PlainDir}, parent \in {NoEntry, PlainDir} :
          /\ one = PlainDir => parent = PlainDir
          /\ fs = (WtParent :> parent) @@ ("/wt/one" :> one) @@ ("/wt/two" :> NoEntry)
    /\ branches \in {{}, {"feat/one"}, {"feat/two"}}
    /\ pw = IdlePw
    /\ git_log = <<>>
    /\ last_call = NoCall

PlanIdle ==
    /\ plan_doc = ""
    /\ fs = (WtParent :> NoEntry) @@ ("/wt/one" :> NoEntry) @@ ("/wt/two" :> NoEntry)
    /\ branches = {}
    /\ pw = IdlePw
    /\ git_log = <<>>
    /\ last_call = NoCall

\* a command may be started
CanRun == pw.pc \in {"idle", "exited"} /\ pw.runs < MaxRuns

\* sys.exit(code), or the end of main (code 0), or an uncaught exception
\* (code 1, err "traceback")
PwExit(cmd, arg, code, err, made) ==
    pw' = [pc |-> "exited", cmd |-> cmd, arg |-> arg, i |-> 0, failures |-> <<>>,
           exit |-> code, err |-> err, made |-> made, runs |-> pw.runs + 1]

\* a command that reads the plan and touches nothing: the fields it prints
\* from every stage raise KeyError when one is missing
ReadOnlyCommand(cmd, fields) ==
    /\ CanRun
    /\ LET md == ParsedPlan[plan_doc]
       IN  IF md = None THEN PwExit(cmd, "", 1, "no_metadata", {})
           ELSE IF \E j \in 1..Len(md[1].stages) : ~(fields \subseteq DOMAIN md[1].stages[j])
           THEN PwExit(cmd, "", 1, "traceback", {})
           ELSE PwExit(cmd, "", 0, "", {})
    /\ git_log' = <<>>
    /\ last_call' = NoCall
    /\ UNCHANGED <<plan_doc, fs, branches>>
    /\ UNCHANGED <<parserVars, filterVars, manifestVars, metadataVars, repoVars, mainVars,
                   thirdVars>>

\* list_stages
ListStages == ReadOnlyCommand("list", {"id", "name", "status", "branch"})

\* show_status
ShowStatus == ReadOnlyCommand("status", {"worktree_path", "id", "name", "status"})

\* setup_stage
SetupStage ==
    /\ CanRun
    /\ \E stage_id \in StageIdArgs, git_ok \in BOOLEAN, link_ok \in BOOLEAN :
        LET md == ParsedPlan[plan_doc]
            quit(code, err) ==
                /\ PwExit("setup", stage_id, code, err, {})
                /\ git_log' = <<>>
                /\ last_call' = NoCall
                /\ UNCHANGED <<fs, branches>>
        IN  IF md = None THEN quit(1, "no_metadata")
            ELSE LET r == get_stage_by_id(md[1], stage_id)
                 IN  IF r.raised THEN quit(1, "traceback")
                     ELSE IF r.idx = 0 THEN quit(1, "stage_not_found")
                     ELSE LET stage == md[1].stages[r.idx]
                              out == create_worktree(stage, md[1], fs, branches,
                                                     git_ok, link_ok)
                          IN  /\ fs' = out.fs
                              /\ branches' = out.branches
                              /\ git_log' = out.git
                              /\ last_call' = CallRecord(r.idx, stage, fs, branches, out)
                              /\ PwExit("setup", stage_id,
                                        IF out.result = "True" THEN 0 ELSE 1,
                                        IF out.result = "True" THEN ""
                                        ELSE IF out.result = "False" THEN "git_failed"
                                        ELSE "traceback",
                                        MadeBy(fs, branches, out))
    /\ UNCHANGED plan_doc
    /\ UNCHANGED <<parserVars, filterVars, manifestVars, metadataVars, repoVars, mainVars,
                   thirdVars>>

\* setup_all, lines 272-279
SetupAllBegin ==
    /\ CanRun
    /\ IF ParsedPlan[plan_doc] = None
       THEN PwExit("setup-all", "", 1, "no_metadata", {})
       ELSE pw' = [pc |-> "loop", cmd |-> "setup-all", arg |-> "", i |-> 0,
                   failures |-> <<>>, exit |-> -1, err |-> "", made |-> {},
                   runs |-> pw.runs]
    /\ git_log' = <<>>
    /\ last_call' = NoCall
    /\ UNCHANGED <<plan_doc, fs, branches>>
    /\ UNCHANGED <<parserVars, filterVars, manifestVars, metadataVars, repoVars, mainVars,
                   thirdVars>>

\* setup_all, one turn of the loop of lines 280-282
SetupAllStage ==
    /\ pw.pc = "loop"
    /\ pw.i < Len(ParsedPlan[plan_doc][1].stages)
    /\ \E git_ok \in BOOLEAN, link_ok \in BOOLEAN :
        LET md == ParsedPlan[plan_doc][1]
            stage == md.stages[pw.i + 1]
            out == create_worktree(stage, md, fs, branches, git_ok, link_ok)
            made == pw.made \cup MadeBy(fs, branches, out)
        IN  /\ fs' = out.fs
            /\ branches' = out.branches
            /\ git_log' = git_log \o out.git
            /\ last_call' = CallRecord(pw.i + 1, stage, fs, branches, out)
            /\ IF out.result = "raised"
               THEN PwExit("setup-all", "", 1, "traceback", made)
               ELSE pw' = [pw EXCEPT !.i = pw.i + 1,
                                     !.failures = IF out.result = "False"
                                                  THEN Append(@, stage["id"]) ELSE @,
                                     !.made = made]
    /\ UNCHANGED plan_doc
    /\ UNCHANGED <<parserVars, filterVars, manifestVars, metadataVars, repoVars, mainVars,
                   thirdVars>>

\* setup_all, lines 284-288
SetupAllEnd ==
    /\ pw.pc = "loop"
    /\ pw.i = Len(ParsedPlan[plan_doc][1].stages)
    /\ IF pw.failures # <<>>
       THEN PwExit("setup-all", "", 1, "failed_stages", pw.made)
       ELSE PwExit("setup-all", "", 0, "", pw.made)
    /\ UNCHANGED <<plan_doc, fs, branches, git_log, last_call>>
    /\ UNCHANGED <<parserVars, filterVars, manifestVars, metadataVars, repoVars, mainVars,
                   thirdVars>>

-----------------------------------------------------------------------------
(* ingest-repo.py: main, its exit codes and its diagnostics *)

\* repo_url arguments of main
MainUrls == Urls \cup {"ftp://host/org/repo"}

\* the filter configuration file main ends up with: none at the path (given
\* or searched), a JSON document, a file that is not JSON, a file that cannot
\* be opened
ConfigStates == {"none", "ok", "unparsable", "denied"}

NoGitFailure == [cmd |-> "none", cause |-> "none", stderr |-> ""]

\* a git command that exits non-zero: the command, why git failed, and what
\* git wrote to its standard error
GitFailures(url, version) ==
    { [cmd |-> "clone", cause |-> "auth",
       stderr |-> "fatal: Authentication failed for '" \o url \o "'"],
      [cmd |-> "clone", cause |-> "notfound",
       stderr |-> "remote: Repository not found."],
      [cmd |-> "clone", cause |-> "other",
       stderr |-> "fatal: unable to access '" \o url \o "': Could not resolve host"],
      [cmd |-> "fetch", cause |-> "auth",
       stderr |-> "git@github.com: Permission denied (publickey)."],
      [cmd |-> "fetch", cause |-> "other",
       stderr |-> "fatal: unable to access '" \o url \o "': Could not resolve host"],
      [cmd |-> "checkout", cause |-> "notfound",
       stderr |-> "error: pathspec '" \o version \o "' did not match any file(s) known to git"],
      [cmd |-> "log", cause |-> "other",
       stderr |-> "fatal: your current branch 'main' does not have any commits yet"] }

\* what the steps after the commit lookup meet: nothing, a copy that fails
\* (OSError), a manifest file that is not JSON
RestOutcomes == {"ok", "copy_failed", "manifest_garbled"}

\* hashlib.sha256(repo_url.encode()).hexdigest()[:16]: sixteen hexadecimal
\* digits, whatever the URL
repo_hash(url) == "5f1c0a9e3b7d2468"

\* the argument list of the git command
GitArgv(cmd, url, version) ==
    LET clone_path == ".claude/context/.cache/" \o repo_hash(url)
    IN  CASE cmd = "clone"    -> <<"git", "clone", url, clone_path>>
          [] cmd = "fetch"    -> <<"git", "fetch", "--all", "--tags">>
          [] cmd = "checkout" -> <<"git", "checkout", version>>
          [] cmd = "log"      -> <<"git", "log", "-1", "--format=%H|%ai">>

\* repr of a list of strings
RECURSIVE ReprItems(_)
ReprItems(argv) ==
    IF Len(argv) = 0 THEN ""
    ELSE "'" \o Head(argv) \o "'" \o
         (IF Len(argv) = 1 THEN "" ELSE ", " \o ReprItems(Tail(argv)))

\* str(e) of a CalledProcessError
StrCalledProcessError(argv) ==
    "Command '[" \o ReprItems(argv) \o "]' returned non-zero exit status 128."

\* only get_commit_info runs git with capture_output=True: e.stderr of the
\* other commands is None, git's text went to the terminal
CapturesStderr(cmd) == cmd = "log"

\* the CalledProcessError subprocess.run raises
RaisedBy(g, url, version) ==
    [argv |-> GitArgv(g.cmd, url, version),
     stderr |-> IF CapturesStderr(g.cmd) THEN Some(g.stderr) ELSE None]

\* error_msg = str(e.stderr) if e.stderr else str(e)
ErrorMsg(e) ==
    IF e.stderr # None /\ e.stderr[1] # "" THEN e.stderr[1]
    ELSE StrCalledProcessError(e.argv)

\* the branch of lines 670-680 taken
Diagnostic(error_msg) ==
    LET m == ToLower(error_msg)
    IN  IF Contains(m, "authentication") \/ Contains(m, "permission denied")
        THEN "auth"
        ELSE IF Contains(m, "not found") \/ Contains(m, "does not exist")
        THEN "not_found"
        ELSE "generic"

\* json.JSONDecodeError and UnicodeDecodeError are subclasses of ValueError
IsValueError(t) == t \in {"ValueError", "JSONDecodeError", "UnicodeDecodeError"}

\* the except clauses of main, in their order
ExitCodeFor(t) ==
    IF t = "CalledProcessError" THEN 1
    ELSE IF IsValueError(t) THEN 2
    ELSE 3

MainIdle ==
    mn = [pc |-> "idle", repo_url |-> "", version |-> "", filter_arg |-> FALSE,
          cfg |-> "none", cached |-> FALSE, git |-> NoGitFailure, rest |-> "ok",
          exit |-> -1, diag |-> "", cause |-> "none"]

\* main after parse_args (line 625)
MainInit ==
    \E url \in MainUrls, version \in Versions, fa \in BOOLEAN, c \in ConfigStates,
       cached \in BOOLEAN, r \in RestOutcomes :
        \E g \in {NoGitFailure} \cup
                  {f \in GitFailures(url, version) :
                      /\ f.cmd = "clone" => ~cached
                      /\ f.cmd = "fetch" => cached} :
            mn = [pc |-> "start", repo_url |-> url, version |-> version,
                  filter_arg |-> fa, cfg |-> c, cached |-> cached, git |-> g,
                  rest |-> r, exit |-> -1, diag |-> "", cause |-> "none"]

\* main returns code, having printed diag
MainReturn(code, diag, cause) ==
    mn' = [mn EXCEPT !.pc = "done", !.exit = code, !.diag = diag, !.cause = cause]

\* "Determine filter config path", lines 632-653
MainFindConfig ==
    /\ mn.pc = "start"
    /\ IF ~mn.filter_arg /\ mn.cfg = "none"
       THEN MainReturn(4, "config", "config_not_found")
       ELSE mn' = [mn EXCEPT !.pc = "construct"]
    /\ UNCHANGED <<parserVars, filterVars, manifestVars, metadataVars, repoVars, planVars,
                   thirdVars>>

\* RepoIngestion(...), lines 657-664 with 388-400 and 27-39, and the except
\* clause that catches what it raises
MainConstruct ==
    /\ mn.pc = "construct"
    /\ IF ~_validate_url(mn.repo_url)
       THEN MainReturn(ExitCodeFor("ValueError"), "error", "invalid_url")
       ELSE IF ~_extract_and_sanitize_repo_name(mn.repo_url).ok
       THEN MainReturn(ExitCodeFor("ValueError"), "error", "invalid_name")
       ELSE IF mn.cfg = "none"
       THEN MainReturn(ExitCodeFor("FileNotFoundError"), "unexpected", "config_not_found")
       ELSE IF mn.cfg = "denied"
       THEN MainReturn(ExitCodeFor("PermissionError"), "unexpected", "config_unreadable")
       ELSE IF mn.cfg = "unparsable"
       THEN MainReturn(ExitCodeFor("JSONDecodeError"),
                       IF IsValueError("JSONDecodeError") THEN "error" ELSE "unexpected",
                       "config_unparsable")
       ELSE mn' = [mn EXCEPT !.pc = "git"]
    /\ UNCHANGED <<parserVars, filterVars, manifestVars, metadataVars, repoVars, planVars,
                   thirdVars>>

\* ingest(), lines 481-490: clone or fetch, checkout, commit lookup; a
\* CalledProcessError is caught at line 667
MainGit ==
    /\ mn.pc = "git"
    /\ IF mn.git.cmd = "none"
       THEN mn' = [mn EXCEPT !.pc = "rest"]
       ELSE MainReturn(ExitCodeFor("CalledProcessError"),
                       Diagnostic(ErrorMsg(RaisedBy(mn.git, mn.repo_url, mn.version))),
                       "git")
    /\ UNCHANGED <<parserVars, filterVars, manifestVars, metadataVars, repoVars, planVars,
                   thirdVars>>

\* ingest(), lines 492-521, and "return 0"
MainRest ==
    /\ mn.pc = "rest"
    /\ CASE mn.rest = "ok" -> MainReturn(0, "", "none")
         [] mn.rest = "copy_failed" ->
                MainReturn(ExitCodeFor("OSError"), "unexpected", "copy_failed")
         [] mn.rest = "manifest_garbled" ->
                MainReturn(ExitCodeFor("JSONDecodeError"),
                           IF IsValueError("JSONDecodeError") THEN "error" ELSE "unexpected",
                           "manifest_garbled")
    /\ UNCHANGED <<parserVars, filterVars, manifestVars, metadataVars, repoVars, planVars,
                   thirdVars>>

-----------------------------------------------------------------------------
(* feedback_parser.py: filter_blocks, called once parse_repository is done *)

\* str.upper()
RECURSIVE ToUpper(_)
ToUpper(s) ==
    IF s = "" THEN ""
    ELSE IF Len(s) = 1
    THEN LET k == {i \in 1..Len(AlphabetLower) : Char(AlphabetLower, i) = s}
         IN  IF k = {} THEN s ELSE Char(AlphabetUpper, Min(k))
    ELSE LET h == Len(s) \div 2
         IN  ToUpper(SubSeq(s, 1, h)) \o ToUpper(SubSeq(s, h + 1, Len(s)))

\* the values a caller may pass for the four keyword arguments
StatusArgs   == {None, Some("open"), Some("responded"), Some("")}
SeverityArgs == {None, Some("critical"), Some("Minor")}
FilePathArgs == {None, Some("a."), Some(".md")}
ReviewerArgs == {None, Some("alice"), Some("")}

\* "if x:" on an Optional[str]: None and the empty string are false
Truthy(x) == x # None /\ x[1] # ""

\* [b for b in filtered if test(b)]
ListComp(filtered, Test(_)) == SelectSeq(filtered, Test)

\* b.severity == severity: the argument taken as it is
SeverityEqualsAsGiven(b, severity) == b.severity = Some(severity)

\* b.severity == severity.upper()
SeverityEquals(b, severity) == b.severity = Some(ToUpper(severity))

\* lines 293-304
filter_blocks(status, severity, path, reviewer) ==
    LET f0 == feedback_blocks
        ByStatus(b)   == b.status = status[1]
        BySeverity(b) == SeverityEquals(b, severity[1])
        ByPath(b)     == Contains(b.file_path, path[1])
        ByReviewer(b) == b.reviewer = reviewer
        f1 == IF Truthy(status)   THEN ListComp(f0, ByStatus)   ELSE f0
        f2 == IF Truthy(severity) THEN ListComp(f1, BySeverity) ELSE f1
        f3 == IF Truthy(path)     THEN ListComp(f2, ByPath)     ELSE f2
        f4 == IF Truthy(reviewer) THEN ListComp(f3, ByReviewer) ELSE f3
    IN  f4

NoArgs == [status |-> None, severity |-> None, file_path |-> None, reviewer |-> None]

FilterBlocksIdle ==
    /\ fb_args = NoArgs
    /\ fb_result = None

\* a call of filter_blocks once parse_repository has returned; one call is
\* followed, a later one would start from the same feedback_blocks
FilterBlocks ==
    /\ rpc = "done"
    /\ fb_result = None
    /\ \E st \in StatusArgs, sv \in SeverityArgs, fp \in FilePathArgs, rv \in ReviewerArgs :
          /\ fb_args' = [status |-> st, severity |-> sv, file_path |-> fp, reviewer |-> rv]
          /\ fb_result' = Some(filter_blocks(st, sv, fp, rv))
    /\ UNCHANGED <<parserVars, filterVars, manifestVars, metadataVars, repoVars, planVars,
                   mainVars, tagVars, mergeVars, ignoreVars, ingestVars>>

-----------------------------------------------------------------------------
(* feedback_parser.py: is_feedback_line called on a line of its own *)

\* what may stand before the comment opener, the openers tried (the four of
\* PATTERNS, one of another language, none), what may stand between opener
\* and word, the words, and the rest of the line
LineIndents == {"", "  ", "\t", "x = 1  "}
LineOpeners == {"#", "//", "<!--", "/*", "--", ""}
LineGaps    == {"", " ", " \t"}
LineWords   == {"FEEDBACK", "RESPONSE", "RESOLVED", "feedback", "TODO", "FEEDBACKS"}
LineRests   == {"\n", ": fix -->\n", " done */\n", " see\n-->", ""}

TagLines ==
    { a \o b \o c \o d \o e :
        a \in LineIndents, b \in LineOpeners, c \in LineGaps, d \in LineWords,
        e \in LineRests }

TagInit ==
    /\ fl_line \in TagLines
    /\ fl_result = <<>>

TagIdle ==
    /\ fl_line = ""
    /\ fl_result = <<>>

\* comment_type = self.is_feedback_line(line)
CallIsFeedbackLine ==
    /\ fl_result = <<>>
    /\ fl_result' = <<is_feedback_line(fl_line)>>
    /\ UNCHANGED fl_line
    /\ UNCHANGED <<parserVars, filterVars, manifestVars, metadataVars, repoVars, planVars,
                   mainVars, filterBlocksVars, mergeVars, ignoreVars, ingestVars>>

-----------------------------------------------------------------------------
(* ingest-repo.py: SecurityFilter.__init__ and the local overrides *)

\* the global configuration documents: the filters of the choices above, with
\* or without an allowlist
ConfigDocs ==
    { "global_filters" :> g : g \in GlobalFilterChoices } \cup
    { ("global_filters" :> g) @@ ("allowlist" :> <<"README.md", "certs/*.pem">>) :
          g \in GlobalFilterChoices }

\* repository_overrides of a local document, in the order of the document:
\* pairs of a repository name and its overrides
OverrideLists ==
    { <<>>,
      << <<"requests", "filters" :> ("secrets" :> [enabled |-> FALSE])>> >>,
      << <<"requests", "filters" :> (("secrets" :> [patterns |-> <<"*.key">>]) @@
                                     ("large_binaries" :> [max_file_size_mb |-> 5]))>> >>,
      << <<"requests", "filters" :> ("docs" :> [enabled |-> TRUE, patterns |-> <<"*.rst">>])>> >>,
      << <<"requests", "filters" :> ("build_artifacts" :> [patterns |-> <<"dist/*">>])>>,
         <<"flask",    "filters" :> ("secrets" :> [enabled |-> TRUE])>> >>,
      << <<"requests", "filters" :> ("symlinks" :> [check_symlinks |-> FALSE])>>,
         <<"flask",    "filters" :> ("symlinks" :> [check_symlinks |-> TRUE,
                                                    enabled |-> TRUE])>> >>,
      << <<"requests", EmptyDict>> >> }

\* the local documents: none, one without repository_overrides, the others
LocalDocs ==
    {None, Some(EmptyDict)} \cup { Some("repository_overrides" :> o) : o \in OverrideLists }

\* dict.update taken for plain assignment: the category is replaced
DictReplace(d, u) == u

\* d.update(u)
DictUpdate(d, u) == [k \in DOMAIN d \cup DOMAIN u |-> IF k \in DOMAIN u THEN u[k] ELSE d[k]]

\* the inner loop of _merge_overrides, lines 45-48, over the categories of one
\* repository's filters
MergeFilters(gf, filters) ==
    [c \in DOMAIN gf |-> IF c \in DOMAIN filters THEN DictUpdate(gf[c], filters[c])
                         ELSE gf[c]]

\* _merge_overrides, lines 43-48: the repositories in the order of the document
RECURSIVE MergeOverrides(_, _)
MergeOverrides(gf, repo_overrides) ==
    IF repo_overrides = <<>> THEN gf
    ELSE MergeOverrides(MergeFilters(gf, Get(Head(repo_overrides)[2], "filters", EmptyDict)),
                        Tail(repo_overrides))

_merge_overrides(gf, local_config) ==
    MergeOverrides(gf, Get(local_config, "repository_overrides", <<>>))

MergeInit ==
    /\ sf_config \in ConfigDocs
    /\ sf_local \in LocalDocs
    /\ sf_pc = "new"

MergeIdle ==
    /\ sf_config = EmptyDict
    /\ sf_local = None
    /\ sf_pc = "idle"

\* SecurityFilter.__init__, lines 27-39
SecurityFilterInit ==
    /\ sf_pc = "new"
    /\ LET gf == Get(sf_config, "global_filters", EmptyDict)
       IN  global_filters' = IF sf_local # None THEN _merge_overrides(gf, sf_local[1])
                             ELSE gf
    /\ allowlist' = Get(sf_config, "allowlist", <<>>)
    /\ sf_pc' = "built"
    /\ UNCHANGED <<visited, dest, stats, file, verdict, sf_config, sf_local>>
    /\ UNCHANGED <<parserVars, manifestVars, metadataVars, repoVars, planVars, mainVars,
                   filterBlocksVars, tagVars, ignoreVars, ingestVars>>

-----------------------------------------------------------------------------
(* ingest-repo.py: RepoIngestion._update_gitignore *)

context_entry == ".claude/context/"
manifest_exception == "!.claude/context/manifest.json"

\* lines a .gitignore may hold before the first ingest
IgnoreLineChoices ==
    {"node_modules", context_entry, manifest_exception, context_entry \o "  ", "# build"}

RECURSIVE JoinLines(_)
JoinLines(ls) ==
    IF Len(ls) = 0 THEN ""
    ELSE IF Len(ls) = 1 THEN ls[1]
    ELSE ls[1] \o "\n" \o JoinLines(Tail(ls))

\* the texts of .gitignore: the last line with or without its line end
IgnoreTexts ==
    {""} \cup
    UNION { UNION { {JoinLines(ls), JoinLines(ls) \o "\n"} : ls \in [1..n -> IgnoreLineChoices] } :
            n \in 1..MaxIgnoreLines }

\* for line in f: the lines of a text, line ends kept
FileLines(text) ==
    LET ends   == {i \in 1..Len(text) : Char(text, i) = "\n"} \cup
                  (IF Len(text) > 0 THEN {Len(text)} ELSE {})
        n      == Cardinality(ends)
        End(k) == CHOOSE e \in ends : Cardinality({x \in ends : x < e}) = k - 1
    IN  [k \in 1..n |-> SubSeq(text, IF k = 1 THEN 1 ELSE End(k - 1) + 1, End(k))]

\* the writes of lines 580-586, in the file's append mode
Appended(has_context, has_exception) ==
    (IF ~has_context
     THEN "\n# Exclude ingested third-party repositories\n" \o context_entry \o "\n"
     ELSE "")
    \o (IF ~has_exception THEN manifest_exception \o "\n" ELSE "")

\* _update_gitignore, lines 564-587, on a file holding text ("" when absent):
\* the text of the file afterwards
_update_gitignore(present, text) ==
    LET raw            == IF present THEN FileLines(text) ELSE <<>>
        existing_lines == [k \in 1..Len(raw) |-> rstrip(raw[k])]
        has_context    == \E k \in 1..Len(existing_lines) : existing_lines[k] = context_entry
        has_exception  == \E k \in 1..Len(existing_lines) :
                              existing_lines[k] = manifest_exception
    IN  IF ~has_context \/ ~has_exception
        THEN Some(text \o Appended(has_context, has_exception))
        ELSE IF present THEN Some(text) ELSE None

IgnoreInit ==
    /\ gitignore \in {None} \cup {Some(t) : t \in IgnoreTexts}
    /\ gi_hist = <<>>

IgnoreIdle ==
    /\ gitignore = None
    /\ gi_hist = <<>>

\* self._update_gitignore() at the end of an ingest
UpdateGitignore ==
    /\ Len(gi_hist) < MaxIgnoreRuns
    /\ gitignore' = _update_gitignore(gitignore # None,
                                      IF gitignore # None THEN gitignore[1] ELSE "")
    /\ gi_hist' = Append(gi_hist, gitignore')
    /\ UNCHANGED <<parserVars, filterVars, manifestVars, metadataVars, repoVars, planVars,
                   mainVars, filterBlocksVars, tagVars, mergeVars, ingestVars>>

-----------------------------------------------------------------------------
(* ingest-repo.py: main and RepoIngestion.ingest, step by step, one          *)
(* invocation after the other on the same context directory                *)

\* repo_url arguments
IngestUrls ==
    { "https://github.com/org/repo.git",
      "https://github.com/other/repo",
      "https://github.com/org/toolkit",
      "git@github.com:org/my.repo/",
      "https://github.com/org/../etc" }

\* the files of the checkout at a version
RevisionFiles(version) ==
    LET F(rel) == [rel |-> rel, islink |-> FALSE, target |-> "", size |-> MiB]
    IN  IF version = "main" THEN {F("README.md"), F("certs/ca.pem"), F("src/app.py")}
        ELSE {F("README.md"), F("certs/ca.pem"), F("src/old.py")}

\* the filter configurations an invocation may find
IngestFilters ==
    { [gf |-> "secrets" :> [enabled |-> TRUE,  patterns |-> <<"*.pem">>], al |-> <<>>],
      [gf |-> "secrets" :> [enabled |-> FALSE, patterns |-> <<"*.pem">>], al |-> <<>>] }

\* the statements of ingest() that may raise, in the order of lines 480-517,
\* with the manifest update moved before the copy
IngestOrderManifestEarly ==
    <<"clone_or_update", "checkout", "commit_info", "manifest", "copy", "context_md",
      "finish">>

\* the statements of ingest() in the order of lines 480-517
IngestOrder ==
    <<"clone_or_update", "checkout", "commit_info", "copy", "context_md", "manifest",
      "finish">>

\* the statement after step
After(step) ==
    LET i == CHOOSE k \in 1..Len(IngestOrder) : IngestOrder[k] = step
    IN  IngestOrder[i + 1]

\* what a failing step raises: subprocess.run(check=True) for the git steps,
\* mkdir, copy2 and open for the others
Raises(step) ==
    IF step \in {"clone_or_update", "checkout", "commit_info"} THEN "CalledProcessError"
    ELSE "OSError"

IdleIngest ==
    [pc |-> "idle", repo_url |-> "", version |-> "", repo_name |-> "",
     filter |-> [gf |-> EmptyDict, al |-> <<>>], commit_info |-> NoCommit,
     steps |-> <<>>, failed |-> "none", exit |-> -1, manifest_before |-> AbsentFile]

NoRemove == [name |-> "", before |-> AbsentFile, wrote |-> FALSE, exit |-> -1]

IngestInit ==
    /\ ig = [IdleIngest EXCEPT !.manifest_before = manifest]
    /\ cache = {}
    /\ ctx = EmptyDict
    /\ ig_done = <<>>
    /\ rm = NoRemove

IngestIdle ==
    /\ ig = IdleIngest
    /\ cache = {}
    /\ ctx = EmptyDict
    /\ ig_done = <<>>
    /\ rm = NoRemove

\* the origin recorded for a file copied by the running invocation
Origin == [url |-> ig.repo_url, version |-> ig.version]

\* main up to RepoIngestion.__init__ raising ValueError: exit code 2
IngestRejected ==
    /\ ig.pc \in {"idle", "returned"}
    /\ clock < MaxIngests
    /\ \E url \in IngestUrls :
        /\ ~(_validate_url(url) /\ _extract_and_sanitize_repo_name(url).ok)
        /\ ig' = [IdleIngest EXCEPT !.pc = "returned", !.repo_url = url,
                                    !.failed = "init",
                                    !.exit = ExitCodeFor("ValueError"),
                                    !.manifest_before = manifest]
    /\ clock' = clock + 1
    /\ rm' = NoRemove
    /\ UNCHANGED <<cache, ctx, ig_done, manifest, proc, hist>>
    /\ UNCHANGED <<parserVars, filterVars, metadataVars, repoVars, planVars, mainVars,
                   filterBlocksVars, tagVars, mergeVars, ignoreVars>>

\* main up to the call of ingest(), lines 655-664
IngestBegin ==
    /\ ig.pc \in {"idle", "returned"}
    /\ clock < MaxIngests
    /\ \E url \in IngestUrls, version \in Versions, flt \in IngestFilters :
        /\ _validate_url(url)
        /\ _extract_and_sanitize_repo_name(url).ok
        /\ ig' = [IdleIngest EXCEPT !.pc = IngestOrder[1], !.repo_url = url,
                                    !.version = version,
                                    !.repo_name = _extract_and_sanitize_repo_name(url).name,
                                    !.filter = flt,
                                    !.manifest_before = manifest]
    /\ clock' = clock + 1
    /\ rm' = NoRemove
    /\ UNCHANGED <<cache, ctx, ig_done, manifest, proc, hist>>
    /\ UNCHANGED <<parserVars, filterVars, metadataVars, repoVars, planVars, mainVars,
                   filterBlocksVars, tagVars, mergeVars, ignoreVars>>

\* the step at ig.pc has run and the next is due
Stepped == [ig EXCEPT !.steps = Append(@, ig.pc), !.pc = After(ig.pc)]

\* a step before the manifest update raises: ingest() is left, main catches
\* the exception at lines 667-687 and returns its code
IngestRaises ==
    /\ ig.pc \in {"clone_or_update", "checkout", "commit_info", "copy", "context_md"}
    /\ ig' = [ig EXCEPT !.steps = Append(@, ig.pc), !.pc = "returned", !.failed = ig.pc,
                        !.exit = ExitCodeFor(Raises(ig.pc))]
    /\ UNCHANGED <<rm, cache, ctx, ig_done, manifestVars>>
    /\ UNCHANGED <<parserVars, filterVars, metadataVars, repoVars, planVars, mainVars,
                   filterBlocksVars, tagVars, mergeVars, ignoreVars>>

\* clone_or_update, lines 437-455
IngestCloneOrUpdate ==
    /\ ig.pc = "clone_or_update"
    /\ ig' = Stepped
    /\ cache' = cache \cup {ig.repo_url}
    /\ UNCHANGED <<rm, ctx, ig_done, manifestVars>>
    /\ UNCHANGED <<parserVars, filterVars, metadataVars, repoVars, planVars, mainVars,
                   filterBlocksVars, tagVars, mergeVars, ignoreVars>>

\* checkout_version and _check_repo_size (which swallows its exceptions),
\* lines 483-486
IngestCheckout ==
    /\ ig.pc = "checkout"
    /\ ig' = Stepped
    /\ UNCHANGED <<rm, cache, ctx, ig_done, manifestVars>>
    /\ UNCHANGED <<parserVars, filterVars, metadataVars, repoVars, planVars, mainVars,
                   filterBlocksVars, tagVars, mergeVars, ignoreVars>>

\* get_commit_info, line 489
IngestCommitInfo ==
    /\ ig.pc = "commit_info"
    /\ ig' = [Stepped EXCEPT !.commit_info = get_commit_info(ig.version)]
    /\ UNCHANGED <<rm, cache, ctx, ig_done, manifestVars>>
    /\ UNCHANGED <<parserVars, filterVars, metadataVars, repoVars, planVars, mainVars,
                   filterBlocksVars, tagVars, mergeVars, ignoreVars>>

\* dest_dir.mkdir(parents=True, exist_ok=True), line 493: what dest_dir holds
\* afterwards
DestDir(name) == Get(ctx, name, EmptyDict)

\* lines 492-499: dest_dir is made if need be and copy_filtered_files copies
\* every file of the checkout that should_include_file accepts over it
IngestCopy ==
    /\ ig.pc = "copy"
    /\ ig' = Stepped
    /\ LET old    == DestDir(ig.repo_name)
           copied == {f.rel : f \in {g \in RevisionFiles(ig.version) :
                         should_include_file(g, ig.filter.gf, ig.filter.al).include}}
       IN  ctx' = DictSet(ctx, ig.repo_name,
                          [q \in DOMAIN old \cup copied |->
                              IF q \in copied THEN Origin ELSE old[q]])
    /\ UNCHANGED <<rm, cache, ig_done, manifestVars>>
    /\ UNCHANGED <<parserVars, filterVars, metadataVars, repoVars, planVars, mainVars,
                   filterBlocksVars, tagVars, mergeVars, ignoreVars>>

\* lines 502-511: CONTEXT.md is written into dest_dir
IngestContextMd ==
    /\ ig.pc = "context_md"
    /\ ig' = Stepped
    /\ ctx' = DictSet(ctx, ig.repo_name, DictSet(ctx[ig.repo_name], "CONTEXT.md", Origin))
    /\ UNCHANGED <<rm, cache, ig_done, manifestVars>>
    /\ UNCHANGED <<parserVars, filterVars, metadataVars, repoVars, planVars, mainVars,
                   filterBlocksVars, tagVars, mergeVars, ignoreVars>>

\* _update_manifest, lines 539-562; json.load of a damaged file raises
\* JSONDecodeError, a ValueError
IngestUpdateManifest ==
    /\ ig.pc = "manifest"
    /\ IF manifest.state \in {"truncated", "garbled"}
       THEN /\ ig' = [ig EXCEPT !.steps = Append(@, ig.pc), !.pc = "returned",
                                !.failed = ig.pc,
                                !.exit = ExitCodeFor("JSONDecodeError")]
            /\ UNCHANGED manifest
       ELSE /\ ig' = Stepped
            /\ manifest' = JsonFile(DictSet(LoadRepositories(manifest), ig.repo_name,
                                            ManifestEntry(ig, clock)))
    /\ UNCHANGED <<rm, cache, ctx, ig_done, proc, clock, hist>>
    /\ UNCHANGED <<parserVars, filterVars, metadataVars, repoVars, planVars, mainVars,
                   filterBlocksVars, tagVars, mergeVars, ignoreVars>>

\* _update_gitignore and the prints, lines 517-521; main returns 0
IngestReturn ==
    /\ ig.pc = "finish"
    /\ ig' = [ig EXCEPT !.steps = Append(@, ig.pc), !.pc = "returned", !.exit = 0]
    /\ ig_done' = Append(ig_done, [url |-> ig.repo_url, name |-> ig.repo_name,
                                   version |-> ig.version, filter |-> ig.filter])
    /\ UNCHANGED <<rm, cache, ctx, manifestVars>>
    /\ UNCHANGED <<parserVars, filterVars, metadataVars, repoVars, planVars, mainVars,
                   filterBlocksVars, tagVars, mergeVars, ignoreVars>>

\* repo arguments of remove-ingested-repo.py
IngestRemoveNames == {"repo", "lib", "toolkit"}

\* main of remove-ingested-repo.py, lines 16-33, run between two ingests: no
\* manifest, return 0; json.load of a damaged file raises and nothing catches
\* it, exit code 1; the name is deleted and the document written back, or
\* the name is not there, return 0
RemoveRun ==
    /\ ig.pc \in {"idle", "returned"}
    /\ clock < MaxIngests
    /\ \E name \in IngestRemoveNames :
        LET found == manifest.state = "json" /\ name \in DOMAIN manifest.repositories
        IN  /\ manifest' = IF found THEN JsonFile(DictDel(manifest.repositories, name))
                           ELSE manifest
            /\ rm' = [name |-> name, before |-> manifest, wrote |-> found,
                      exit |-> IF manifest.state \in {"truncated", "garbled"} THEN 1 ELSE 0]
    /\ ig' = [IdleIngest EXCEPT !.manifest_before = manifest']
    /\ clock' = clock + 1
    /\ UNCHANGED <<cache, ctx, ig_done, proc, hist>>
    /\ UNCHANGED <<parserVars, filterVars, metadataVars, repoVars, planVars, mainVars,
                   filterBlocksVars, tagVars, mergeVars, ignoreVars>>

\* the manifest before the first invocation: none, one with an entry, one
\* that is not JSON
ManifestBefore ==
    { AbsentFile, GarbledFile,
      JsonFile("lib" :> [url |-> "https://github.com/org/lib", version |-> "main",
                         commit_sha |-> "9f2c41",
                         commit_date |-> "2025-11-23 10:00:00 +0000",
                         ingested_at |-> 0]) }

-----------------------------------------------------------------------------
(* The specifications *)

ThirdIdle == FilterBlocksIdle /\ TagIdle /\ MergeIdle /\ IgnoreIdle /\ IngestIdle

\* every subsystem but those of the third group idle
FirstIdle == ParserIdle /\ FilterIdle /\ ManifestIdle /\ MetadataIdle /\ RepoIdle
                 /\ PlanIdle /\ MainIdle

InitTag == FirstIdle /\ FilterBlocksIdle /\ TagInit /\ MergeIdle /\ IgnoreIdle
               /\ IngestIdle
NextTag == CallIsFeedbackLine
SpecTag == InitTag /\ [][NextTag]_vars

InitMerge == FirstIdle /\ FilterBlocksIdle /\ TagIdle /\ MergeInit /\ IgnoreIdle
                 /\ IngestIdle
NextMerge == SecurityFilterInit
SpecMerge == InitMerge /\ [][NextMerge]_vars

InitIgnore == FirstIdle /\ FilterBlocksIdle /\ TagIdle /\ MergeIdle /\ IgnoreInit
                  /\ IngestIdle
NextIgnore == UpdateGitignore
SpecIgnore == InitIgnore /\ [][NextIgnore]_vars

InitIngest ==
    /\ ParserIdle /\ FilterIdle /\ MetadataIdle /\ RepoIdle /\ PlanIdle /\ MainIdle
    /\ FilterBlocksIdle /\ TagIdle /\ MergeIdle /\ IgnoreIdle
    /\ manifest \in ManifestBefore
    /\ IngestInit
    /\ proc = [p \in Procs |-> IdleProc]
    /\ clock = 0
    /\ hist = [last |-> NoWrite, per |-> [p \in Procs |-> FreshHist]]
NextIngest ==
    \/ IngestRejected
    \/ IngestBegin
    \/ IngestRaises
    \/ IngestCloneOrUpdate
    \/ IngestCheckout
    \/ IngestCommitInfo
    \/ IngestCopy
    \/ IngestContextMd
    \/ IngestUpdateManifest
    \/ IngestReturn
    \/ RemoveRun
SpecIngest == InitIngest /\ [][NextIngest]_vars

LaterIdle == MetadataIdle /\ RepoIdle /\ PlanIdle /\ MainIdle /\ ThirdIdle

Init == ParserInit /\ FilterIdle /\ ManifestIdle /\ LaterIdle
Next == ParseFeedbackLine \/ ParseOtherLine \/ ParseEndOfFile
Spec == Init /\ [][Next]_vars

InitFilter == ParserIdle /\ FilterInit /\ ManifestIdle /\ LaterIdle
NextFilter == CopyIncludedFile \/ SkipFilteredFile
SpecFilter == InitFilter /\ [][NextFilter]_vars

InitManifest == ParserIdle /\ FilterIdle /\ ManifestInit /\ LaterIdle
NextManifest ==
    \E p \in Procs :
        \/ BeginIngestRejected(p)
        \/ BeginIngest(p)
        \/ IngestWorkflowDone(p)
        \/ IngestWorkflowFails(p)
        \/ UpdateManifestLoad(p)
        \/ UpdateManifestOpen(p)
        \/ UpdateManifestDump(p)
        \/ BeginRemove(p)
        \/ RemoveOpen(p)
        \/ RemoveDump(p)
SpecManifest == InitManifest /\ [][NextManifest]_vars

InitSingle == ParserInitSingle /\ FilterIdle /\ ManifestIdle /\ LaterIdle
NextSingle == ParseFeedbackLine \/ ParseOtherLine \/ ParseEndOfFile
SpecSingle == InitSingle /\ [][NextSingle]_vars

InitMetadata == ParserIdle /\ FilterIdle /\ ManifestIdle /\ MetadataInit /\ RepoIdle
                    /\ PlanIdle /\ MainIdle /\ ThirdIdle
NextMetadata == CallParseMetadata
SpecMetadata == InitMetadata /\ [][NextMetadata]_vars

InitPlan == ParserIdle /\ FilterIdle /\ ManifestIdle /\ MetadataIdle /\ RepoIdle
                /\ PlanInit /\ MainIdle /\ ThirdIdle
NextPlan ==
    \/ ListStages
    \/ ShowStatus
    \/ SetupStage
    \/ SetupAllBegin
    \/ SetupAllStage
    \/ SetupAllEnd
SpecPlan == InitPlan /\ [][NextPlan]_vars

InitMain == ParserIdle /\ FilterIdle /\ ManifestIdle /\ MetadataIdle /\ RepoIdle
                /\ PlanIdle /\ MainInit /\ ThirdIdle
NextMain == MainFindConfig \/ MainConstruct \/ MainGit \/ MainRest
SpecMain == InitMain /\ [][NextMain]_vars

InitRepository == ParserIdle /\ FilterIdle /\ ManifestIdle /\ MetadataIdle /\ RepoInit
                      /\ PlanIdle /\ MainIdle /\ ThirdIdle
NextRepository ==
    \/ ParseFileOpen
    \/ ParseFileUnreadable
    \/ ParseFeedbackLine
    \/ ParseOtherLine
    \/ ParseEndOfFile
    \/ ExtendFeedbackBlocks
    \/ FilterBlocks
SpecRepository == InitRepository /\ [][NextRepository]_vars

-----------------------------------------------------------------------------
(* Claims on should_include_file, checked under SpecFilter.  The rules are  *)
(* restated here from the configuration alone.                              *)

\* should_include_file has been called on file
Called == verdict.rule # "none"

Allowlisted == \E i \in 1..Len(allowlist) : fnmatch(file.rel, allowlist[i])

SymlinkChecking ==
    LET c == Get(global_filters, "symlinks", EmptyDict)
    IN  Get(c, "enabled", TRUE) /\ Get(c, "check_symlinks", TRUE)

\* the link is one the symlink rule excludes
ExcludedSymlink ==
    file.islink /\ SymlinkChecking /\ (isabs(file.target) \/ Contains(file.target, ".."))

LargeBinariesEnabled ==
    Get(Get(global_filters, "large_binaries", EmptyDict), "enabled", TRUE)

\* the size ceiling in bytes: max_file_size_mb mebibytes, 1 by default
CeilingBytes ==
    Get(Get(global_filters, "large_binaries", EmptyDict), "max_file_size_mb", 1) * 1048576

\* the path matches a pattern of a category whose enabled flag is true or absent
DenyMatch ==
    \E c \in DOMAIN global_filters \ {"symlinks", "large_binaries"} :
        /\ "enabled" \in DOMAIN global_filters[c] => global_filters[c].enabled
        /\ "patterns" \in DOMAIN global_filters[c]
        /\ \E i \in 1..Len(global_filters[c].patterns) :
              fnmatch(file.rel, global_filters[c].patterns[i])

\* C4: a regular file whose path matches the allowlist is included, also when
\* the path matches a pattern of an enabled deny category.
C4_AllowlistBeatsDeny ==
    (Called /\ ~file.islink /\ Allowlisted) => verdict.include

\* an allowlisted regular file that an enabled category denies has been copied
C4_Witness ==
    /\ Called /\ ~file.islink /\ Allowlisted /\ DenyMatch
    /\ verdict.include
    /\ file.rel \in dest

\* C5: every file whose path matches the allowlist is included, whatever its
\* other attributes, a symlink that points outside the source tree included.
C5_AllowlistAlwaysIncludes ==
    (Called /\ Allowlisted) => verdict.include

\* C6: with symlink checking enabled, every non-allowlisted symlink whose
\* target resolves outside the source root is excluded.
C6_OutsideSymlinkExcluded ==
    (Called /\ SymlinkChecking /\ file.islink /\ ~Allowlisted /\ ResolvesOutside(file))
        => ~verdict.include

C8_PatternCategories ==
    (Called /\ ~Allowlisted /\ ~ExcludedSymlink
            /\ ~(LargeBinariesEnabled /\ file.size > CeilingBytes))
        => (~verdict.include <=> DenyMatch)

\* a path that only a disabled category matches is included
C8_Witness ==
    /\ Called /\ ~Allowlisted /\ ~ExcludedSymlink
    /\ ~(LargeBinariesEnabled /\ file.size > CeilingBytes)
    /\ \E c \in DOMAIN global_filters :
          /\ "enabled" \in DOMAIN global_filters[c] /\ ~global_filters[c].enabled
          /\ "patterns" \in DOMAIN global_filters[c]
          /\ \E i \in 1..Len(global_filters[c].patterns) :
                fnmatch(file.rel, global_filters[c].patterns[i])
    /\ ~DenyMatch
    /\ verdict.include

-----------------------------------------------------------------------------
(* Claims on the manifest, checked under SpecManifest *)

NameChars == Lower \cup Upper \cup Digit \cup {"_", "-"}

\* the URL is one the claim says is rejected
MustReject(url) == Contains(url, "..") \/ RawName(url) = ""

\* C9: every key of manifest['repositories'] is a non-empty name of letters,
\* digits, '_' and '-'; an ingest of a URL that holds '..' or yields an empty
\* name exits with code 2 and has written nothing.
C9_KeysSanitized ==
    /\ \A n \in DOMAIN manifest.repositories :
          n # "" /\ \A i \in 1..Len(n) : Char(n, i) \in NameChars
    /\ \A p \in Procs :
          (proc[p].op = "ingest" /\ proc[p].repo_url # "" /\ MustReject(proc[p].repo_url))
              => (proc[p].pc = "exited" /\ proc[p].exit = 2 /\ ~hist.per[p].wrote)

\* the manifest holds the sanitised key of my.repo, and an ingest of a URL
\* with '..' was rejected
C9_Witness ==
    /\ manifest.state = "json"
    /\ "my-repo" \in DOMAIN manifest.repositories
    /\ manifest.repositories["my-repo"].url = "git@github.com:org/my.repo/"
    /\ \E p \in Procs : proc[p].pc = "exited" /\ Contains(proc[p].repo_url, "..")

\* C10: nothing excludes two invocations from each other: after a write, the
\* manifest is exactly what the last writer wrote, which is what that writer
\* had loaded with its own entry set or deleted, so that whatever another
\* invocation wrote between that load and that write is lost.
C10_LastWriterWins ==
    (manifest.state = "json" /\ hist.last.writer # 0) =>
        /\ manifest.repositories = hist.last.written
        /\ \A n \in (DOMAIN manifest.repositories \cup DOMAIN hist.last.loaded)
                        \ {hist.last.name} :
              /\ n \in DOMAIN manifest.repositories
              /\ n \in DOMAIN hist.last.loaded
              /\ manifest.repositories[n] = hist.last.loaded[n]

\* an ingest wrote its entry between the last writer's load and write, and
\* that entry is not in the manifest
C10_Witness ==
    /\ manifest.state = "json"
    /\ hist.last.writer # 0
    /\ \E u \in hist.last.missed :
          /\ u.op = "ingest"
          /\ u.name # hist.last.name
          /\ u.name \notin DOMAIN manifest.repositories

-----------------------------------------------------------------------------
(* Claims on the metadata of a block, checked under Spec *)

\* what parse_metadata extracts from each line a file of the model may hold
MetadataOfLine == [l \in LineForms |-> parse_metadata(l)]

\* the metadata of the first FEEDBACK line among lines a..b, none extracted
\* when there is no such line
FirstFeedbackMetadata(a, b) ==
    LET fbs == {i \in a..b : TagOfLine[lines[i]] = Some("FEEDBACK")}
    IN  IF fbs = {} THEN EmptyMetadata ELSE MetadataOfLine[lines[Min(fbs)]]

BlockMetadata(b) == [severity |-> b.severity, reviewer |-> b.reviewer, date |-> b.date]

\* C16 as stated: the severity, reviewer and date of a block are those
\* extracted from the line that opens the block, whatever the tag of that line.
C16_MetadataFromOpeningLine ==
    \A k \in 1..Len(blocks) :
        BlockMetadata(blocks[k]) = MetadataOfLine[lines[blocks[k].line_start]]

\* C16 amended: the severity, reviewer and date of a block are those
\* extracted from the first FEEDBACK line of the block, all None when the block
\* has no FEEDBACK line; while the block is open the values already extracted
\* are not changed by any later line.
C16_MetadataFromFirstFeedbackLine ==
    /\ \A k \in 1..Len(blocks) :
          BlockMetadata(blocks[k]) =
              FirstFeedbackMetadata(blocks[k].line_start, blocks[k].line_end)
    /\ (ppc = "scan" /\ current_block) =>
          metadata = FirstFeedbackMetadata(block_start[1], line_num)

\* a block opened by a RESPONSE line, then a FEEDBACK line, then a FEEDBACK
\* line that carries other metadata: the block has those of the first of the two
C16_Witness ==
    /\ ppc = "done"
    /\ \E k \in 1..Len(blocks) :
        LET s == blocks[k].line_start
        IN  /\ blocks[k].line_end >= s + 2
            /\ TagOfLine[lines[s]] = Some("RESPONSE")
            /\ TagOfLine[lines[s + 1]] = Some("FEEDBACK")
            /\ TagOfLine[lines[s + 2]] = Some("FEEDBACK")
            /\ MetadataOfLine[lines[s + 1]] # MetadataOfLine[lines[s + 2]]
            /\ MetadataOfLine[lines[s]] # MetadataOfLine[lines[s + 1]]
            /\ BlockMetadata(blocks[k]) = MetadataOfLine[lines[s + 1]]

-----------------------------------------------------------------------------
(* Claim on parse_metadata, checked under SpecMetadata *)

\* the labels whose exact bracketed upper-case form occurs in the line
BracketedLabels(line) ==
    {S \in {"CRITICAL", "MAJOR", "MINOR", "NIT"} : Contains(line, "[" \o S \o "]")}

\* C17: parse_metadata returns a severity exactly when the line holds '[S]'
\* for a label S of CRITICAL, MAJOR, MINOR, NIT (a lower-case, unbracketed or
\* unknown label gives None), and of several labels it returns the first in
\* the order CRITICAL, MAJOR, MINOR, NIT, wherever they stand in the line.
C17_SeverityLabel ==
    md_result # None =>
        LET found == BracketedLabels(md_line)
            sev   == md_result[1].severity
        IN  /\ (sev # None) <=> (found # {})
            /\ found # {} =>
                  sev = Some(IF "CRITICAL" \in found THEN "CRITICAL"
                             ELSE IF "MAJOR" \in found THEN "MAJOR"
                             ELSE IF "MINOR" \in found THEN "MINOR"
                             ELSE "NIT")

\* a line with [NIT] standing before [CRITICAL]: CRITICAL is returned
C17_Witness ==
    /\ md_result # None
    /\ StartsWithAt(md_line, 1, "# FEEDBACK [NIT] [CRITICAL]")
    /\ md_result[1].severity = Some("CRITICAL")

-----------------------------------------------------------------------------
(* Claim on a file with one FEEDBACK line, checked under SpecSingle *)

\* the tagged lines of the file
TaggedLines == {i \in 1..Len(lines) : Tagged(i)}

\* the line is a FEEDBACK comment that carries severity S, handle h and date D
CarriesAll(l, S, h, D) ==
    rstrip(l) = "# FEEDBACK [" \o S \o "] (@" \o h \o ", " \o D \o "): fix"

Handles == {"alice", "bob-2"}
Dates == {"2025-11-23", "2024-02-29"}

\* the line carries no label, no handle and no date
CarriesNone(l) ==
    \A i \in 1..Len(l) : Char(l, i) \notin Digit \cup {"[", "@"}

\* C18: a file whose only tagged line is one FEEDBACK line carrying severity
\* S, handle @h and date D yields exactly one block with severity S, reviewer
\* h, date D, status open and neither response nor resolution; a FEEDBACK line
\* carrying none of the three yields one block with all three None.
C18_SingleFeedbackLine ==
    (ppc = "done" /\ Cardinality(TaggedLines) = 1) =>
        LET l == lines[CHOOSE i \in TaggedLines : TRUE]
        IN  TagOfLine[l] = Some("FEEDBACK") =>
              /\ \A S \in {"CRITICAL", "MAJOR", "MINOR", "NIT"}, h \in Handles, D \in Dates :
                    CarriesAll(l, S, h, D) =>
                        /\ Len(blocks) = 1
                        /\ blocks[1].severity = Some(S)
                        /\ blocks[1].reviewer = Some(h)
                        /\ blocks[1].date = Some(D)
                        /\ blocks[1].status = "open"
                        /\ ~blocks[1].has_response
                        /\ ~blocks[1].has_resolved
              /\ CarriesNone(l) =>
                    /\ Len(blocks) = 1
                    /\ blocks[1].severity = None
                    /\ blocks[1].reviewer = None
                    /\ blocks[1].date = None

\* the example of the specification parsed between two plain lines
C18_Witness ==
    /\ ppc = "done"
    /\ Len(lines) = 3
    /\ TaggedLines = {2}
    /\ CarriesAll(lines[2], "CRITICAL", "alice", "2025-11-23")
    /\ Len(blocks) = 1
    /\ blocks[1].reviewer = Some("alice")

\* a FEEDBACK line without severity, handle and date has been parsed
C18_WitnessNone ==
    /\ ppc = "done"
    /\ TaggedLines # {}
    /\ \A i \in TaggedLines : TagOfLine[lines[i]] = Some("FEEDBACK") /\ CarriesNone(lines[i])
    /\ Len(blocks) = 1
    /\ blocks[1].severity = None

-----------------------------------------------------------------------------
(* Claim on unreadable files, checked under SpecRepository *)

\* number of maximal runs of tagged lines in a text
RunCount(ls) ==
    Cardinality({i \in 1..Len(ls) :
                    /\ TagOfLine[ls[i]] # None
                    /\ i = 1 \/ TagOfLine[ls[i - 1]] = None})

\* the blocks collected so far for a path
CollectedFor(path) ==
    {k \in 1..Len(feedback_blocks) : feedback_blocks[k].file_path = path}

\* C19: parse_file returns the empty list, and raises nothing, for a file that
\* is missing, unreadable or not UTF-8; in parse_repository such a file adds no
\* block and every readable file still contributes all of its blocks.
C19_UnreadableFilesSkipped ==
    /\ rpc # "raised"
    /\ (rpc = "parse" /\ repo_files[file_idx].kind # "text") =>
          (ppc = "done" /\ blocks = <<>>)
    /\ rpc = "done" =>
          \A i \in 1..Len(repo_files) :
              Cardinality(CollectedFor(repo_files[i].path)) =
                  IF repo_files[i].kind = "text" THEN RunCount(repo_files[i].lines) ELSE 0

\* a file that is not UTF-8 and a missing file stand before a text file, whose
\* block is collected
C19_Witness ==
    /\ rpc = "done"
    /\ Len(repo_files) = 3
    /\ repo_files[1].kind = "binary"
    /\ repo_files[2].kind = "missing"
    /\ repo_files[3].kind = "text"
    /\ Len(feedback_blocks) >= 1
    /\ feedback_blocks[1].file_path = repo_files[3].path

-----------------------------------------------------------------------------
(* Claims on main of ingest-repo.py, checked under SpecMain *)

\* the failure class of what stopped the run
FailureClass(cause) ==
    CASE cause = "none" -> "none"
      [] cause = "config_not_found" -> "config_missing"
      [] cause \in {"invalid_url", "invalid_name"} -> "validation"
      [] cause = "git" -> "subprocess"
      [] OTHER -> "unexpected"

\* the exit code of each class
CodeOfClass(class) ==
    CASE class = "none" -> 0
      [] class = "subprocess" -> 1
      [] class = "validation" -> 2
      [] class = "unexpected" -> 3
      [] class = "config_missing" -> 4

\* C15: main returns 0 only when the ingestion completes, and for each of
\* the four failure classes (configuration not found, validation, git
\* subprocess, anything else) the code of that class and of no other; a
\* filter configuration that is not JSON is not a validation failure.
C15_ExitCodePerClass ==
    mn.pc = "done" => mn.exit = CodeOfClass(FailureClass(mn.cause))

\* C20: when a git command of the ingestion fails, main prints the
\* authentication diagnostic if git failed for authentication or permission
\* reasons, the not-found diagnostic if the repository or the version does not
\* exist, and the generic diagnostic otherwise.
C20_DiagnosticMatchesCause ==
    (mn.pc = "done" /\ mn.cause = "git") =>
        mn.diag = CASE mn.git.cause = "auth" -> "auth"
                    [] mn.git.cause = "notfound" -> "not_found"
                    [] mn.git.cause = "other" -> "generic"

-----------------------------------------------------------------------------
(* Claims on planworktree.py, checked under SpecPlan *)

\* the plan file declares stages that all carry the fields of a Stage
WellFormedPlanDoc ==
    \E v \in StageLists :
        /\ plan_doc = DocWithBlock(PlanJson(v))
        /\ \A j \in 1..Len(v) : RequiredFields \subseteq DOMAIN v[j]

\* what C11 says of the last create_worktree call, when the path existed
ExistingLeftUntouched ==
    last_call.existed =>
        /\ last_call.result = "True"
        /\ last_call.git = <<>>
        /\ branches = last_call.br_before
        /\ fs[last_call.path] = last_call.before
        /\ (pw.pc = "exited" /\ pw.cmd = "setup") => pw.exit = 0

\* C11: a create_worktree call on a stage whose worktree path exists runs no
\* git command, creates no branch, leaves what is at the path as it was and
\* returns True; setup run on such a stage, also a second time, exits with
\* code 0.
C11_ExistingWorktreeUntouched == ExistingLeftUntouched

\* the same for plans whose stages all carry the fields of a Stage: the calls
\* that no missing field (C13) ends before line 187
C11_CompleteStagesUntouched == WellFormedPlanDoc => ExistingLeftUntouched

\* setup run a second time on a stage whose worktree the first run created
C11_Witness ==
    /\ pw.pc = "exited"
    /\ pw.cmd = "setup"
    /\ pw.runs = 2
    /\ last_call.existed
    /\ last_call.before.kind = "worktree"
    /\ last_call.before.link
    /\ pw.exit = 0

\* C12: whenever create_worktree returns True for a stage, the stage's path
\* holds a worktree on the stage's branch with the plan linked inside it.
C12_SuccessMeansWorktree ==
    last_call.result = "True" =>
        /\ fs[last_call.path].kind = "worktree"
        /\ fs[last_call.path].branch = last_call.branch
        /\ fs[last_call.path].link

\* the plan file declares a stage that lacks a required field
DefectivePlanDoc ==
    \E v \in StageLists :
        /\ plan_doc = DocWithBlock(PlanJson(v))
        /\ \E j \in 1..Len(v) : ~(RequiredFields \subseteq DOMAIN v[j])

\* C13: on a plan with a stage that lacks a required field, setup and
\* setup-all create no branch, worktree or link for any stage and end with a
\* reported error.
C13_RequiredFieldsValidated ==
    (DefectivePlanDoc /\ pw.cmd \in {"setup", "setup-all"}) =>
        /\ pw.made = {}
        /\ pw.pc = "exited" => (pw.exit # 0 /\ pw.err # "")

\* C14: on a plan file whose metadata block is missing or is not JSON, each
\* of list, setup, setup-all and status reports the error, exits with a
\* non-zero code, runs no git command and creates nothing.
C14_NoMetadataAborts ==
    plan_doc \in NoBlockDocs \cup InvalidJsonDocs =>
        /\ pw.pc # "loop"
        /\ pw.pc = "exited" =>
              /\ pw.exit # 0
              /\ pw.err = "no_metadata"
              /\ pw.made = {}
              /\ git_log = <<>>
              /\ last_call = NoCall

\* setup-all has been run after list on a plan file whose block is not JSON
C14_Witness ==
    /\ plan_doc \in InvalidJsonDocs
    /\ pw.pc = "exited"
    /\ pw.cmd = "setup-all"
    /\ pw.runs = 2
    /\ pw.exit = 1

-----------------------------------------------------------------------------
(* Claim on filter_blocks, checked under SpecRepository *)

\* a criterion is given when the argument is a non-empty string
Given(x) == x # None /\ x[1] # ""

\* C21 restated: the block satisfies every criterion given
Satisfies(b, a) ==
    /\ Given(a.status)    => b.status = a.status[1]
    /\ Given(a.severity)  => b.severity = Some(ToUpper(a.severity[1]))
    /\ Given(a.file_path) => \E i \in 1..Len(b.file_path) :
                                 StartsWithAt(b.file_path, i, a.file_path[1])
    /\ Given(a.reviewer)  => b.reviewer = a.reviewer

\* the positions of feedback_blocks whose block satisfies the criteria, ascending
RECURSIVE Kept(_, _)
Kept(i, a) ==
    IF i > Len(feedback_blocks) THEN <<>>
    ELSE (IF Satisfies(feedback_blocks[i], a) THEN <<feedback_blocks[i]>> ELSE <<>>)
             \o Kept(i + 1, a)

\* C21: filter_blocks returns exactly the blocks of feedback_blocks that
\* satisfy every criterion given (an argument that is None or empty is no
\* criterion), in their original order; with no criterion it returns all
\* blocks.  (That feedback_blocks is not modified is C21_FeedbackBlocksKept.)
C21_FilterBlocksExact ==
    fb_result # None =>
        /\ fb_result[1] = Kept(1, fb_args)
        /\ (\A k \in DOMAIN fb_args : ~Given(fb_args[k])) => fb_result[1] = feedback_blocks

\* C21, the frame part, as an action property: a call leaves feedback_blocks
C21_FeedbackBlocksKept ==
    [][fb_result' # fb_result => feedback_blocks' = feedback_blocks]_vars

\* a call with a lower-case severity and a path criterion that kept one block
\* of several and dropped another
C21_Witness ==
    /\ fb_result # None
    /\ fb_args.severity = Some("critical")
    /\ fb_args.file_path # None
    /\ Len(feedback_blocks) >= 3
    /\ Len(fb_result[1]) >= 1
    /\ Len(fb_result[1]) < Len(feedback_blocks)

-----------------------------------------------------------------------------
(* Claim on is_feedback_line, checked under SpecTag *)

\* the four comment families: opener and, where the comment must be closed,
\* the closer
Families == { <<"#", "">>, <<"//", "">>, <<"<!--", "-->">>, <<"/*", "*/">> }

Blank(s, a, b) == \A k \in a..b : SubSeq(s, k, k) \in {" ", "\t", "\n", "\r", "\f"}

\* line is blanks, the opener, blanks, the tag, and for a family with a closer
\* the closer later on the same line
Recognized(line, f, tag) ==
    \E i \in 1..Len(line), j \in 1..Len(line) :
        /\ Blank(line, 1, i - 1)
        /\ StartsWithAt(line, i, f[1])
        /\ j >= i + Len(f[1])
        /\ Blank(line, i + Len(f[1]), j - 1)
        /\ StartsWithAt(line, j, tag)
        /\ f[2] # "" =>
              \E k \in (j + Len(tag))..Len(line) :
                  /\ StartsWithAt(line, k, f[2])
                  /\ \A m \in 1..(k - 1) : SubSeq(line, m, m) # "\n"

\* C22: is_feedback_line returns the tag of a line whose first non-blank text
\* is an opener of one of the four families followed by optional blanks and
\* the tag, at any indentation, and None for every other line; a line of the
\* '<!--' or '/*' family counts only with its closer on the same line.
C22_TagOfLine ==
    fl_result # <<>> =>
        \A tag \in {"FEEDBACK", "RESPONSE", "RESOLVED"} :
            (fl_result[1] = <<tag>>) <=> (\E f \in Families : Recognized(fl_line, f, tag))

\* an indented '/*' line with its closer was given its tag
C22_Witness ==
    /\ fl_result = << <<"RESOLVED">> >>
    /\ fl_line = "  /* RESOLVED done */\n"

\* a '<!--' line whose closer stands on the next line was refused
C22_WitnessOpen ==
    /\ fl_result = << <<>> >>
    /\ fl_line = "<!-- FEEDBACK see\n-->"

-----------------------------------------------------------------------------
(* Claim on the local overrides, checked under SpecMerge *)

\* the filters of the global document
GlobalOf == IF "global_filters" \in DOMAIN sf_config THEN sf_config["global_filters"]
            ELSE <<>>

\* the override entries of the local document that name category c, in order
NamedIn(c) ==
    LET o == IF "repository_overrides" \in DOMAIN sf_local[1]
             THEN sf_local[1]["repository_overrides"] ELSE <<>>
        Names(e) == "filters" \in DOMAIN e[2] /\ c \in DOMAIN e[2]["filters"]
        Pick(e)  == e[2]["filters"][c]
        named    == SelectSeq(o, Names)
    IN  [i \in 1..Len(named) |-> Pick(named[i])]

\* the categories the override names
OverrideCategories ==
    LET o == IF "repository_overrides" \in DOMAIN sf_local[1]
             THEN sf_local[1]["repository_overrides"] ELSE <<>>
    IN  UNION { DOMAIN o[i][2]["filters"] : i \in {j \in 1..Len(o) : "filters" \in DOMAIN o[j][2]} }

\* C23: with a local override document, the filters in force are the global
\* ones merged by category: a category of the global filters that the override
\* names has the override's keys replaced (the last entry of the document that
\* gives a key wins) and its other keys kept; categories the override does not
\* name are unchanged, categories absent from the global filters are not
\* added, and the allowlist is that of the global document.
C23_MergedByCategory ==
    (sf_pc = "built" /\ sf_local # None) =>
        /\ DOMAIN global_filters = DOMAIN GlobalOf
        /\ allowlist = (IF "allowlist" \in DOMAIN sf_config THEN sf_config["allowlist"]
                        ELSE <<>>)
        /\ \A c \in DOMAIN GlobalOf :
              LET ov == NamedIn(c)
                  keys == UNION { DOMAIN ov[i] : i \in 1..Len(ov) }
              IN  /\ DOMAIN global_filters[c] = DOMAIN GlobalOf[c] \cup keys
                  /\ \A k \in DOMAIN GlobalOf[c] \ keys :
                        global_filters[c][k] = GlobalOf[c][k]
                  /\ \A k \in keys :
                        LET last == CHOOSE i \in 1..Len(ov) :
                                        /\ k \in DOMAIN ov[i]
                                        /\ \A j \in (i + 1)..Len(ov) : k \notin DOMAIN ov[j]
                        IN  global_filters[c][k] = ov[last][k]

\* the override replaced the patterns of secrets, whose switch was kept, and
\* changed the size ceiling
C23_Witness ==
    /\ sf_pc = "built"
    /\ sf_local # None
    /\ "secrets" \in OverrideCategories
    /\ "enabled" \in DOMAIN GlobalOf["secrets"]
    /\ global_filters["secrets"] = [enabled |-> FALSE, patterns |-> <<"*.key">>]
    /\ "large_binaries" \in DOMAIN global_filters
    /\ global_filters["large_binaries"].max_file_size_mb = 5

-----------------------------------------------------------------------------
(* Claim on .gitignore, checked under SpecIgnore *)

\* text has a whole line equal to w
HasWholeLine(text, w) ==
    \E a \in 1..Len(text) :
        /\ a = 1 \/ SubSeq(text, a - 1, a - 1) = "\n"
        /\ StartsWithAt(text, a, w)
        /\ a + Len(w) = Len(text) + 1 \/ SubSeq(text, a + Len(w), a + Len(w)) = "\n"

\* C24: after _update_gitignore has run, whatever .gitignore held before, the
\* file has a whole line '.claude/context/' and a whole line
\* '!.claude/context/manifest.json'; a second run appends nothing.
C24_GitignoreEntries ==
    /\ Len(gi_hist) >= 1 =>
          /\ gi_hist[1] # None
          /\ HasWholeLine(gi_hist[1][1], ".claude/context/")
          /\ HasWholeLine(gi_hist[1][1], "!.claude/context/manifest.json")
    /\ Len(gi_hist) >= 2 => gi_hist[2] = gi_hist[1]

-----------------------------------------------------------------------------
(* Claims on ingest, checked under SpecIngest *)

\* the five steps that come before the manifest update
StepsBeforeManifest == <<"clone_or_update", "checkout", "commit_info", "copy", "context_md">>

\* how often a step was attempted in the running invocation
Attempts(step) == Cardinality({k \in 1..Len(ig.steps) : ig.steps[k] = step})

\* C25: the manifest is written only after clone-or-fetch, checkout, commit
\* lookup, filtered copy and CONTEXT.md generation have all succeeded, each
\* attempted at most once; when one of them fails the run stops there, the
\* manifest file is as it was and main exits non-zero.
C25_ManifestWrittenLast ==
    /\ \A k \in 1..Len(StepsBeforeManifest) : Attempts(StepsBeforeManifest[k]) <= 1
    /\ manifest # ig.manifest_before =>
          /\ Len(ig.steps) > Len(StepsBeforeManifest)
          /\ SubSeq(ig.steps, 1, Len(StepsBeforeManifest)) = StepsBeforeManifest
          /\ ig.failed = "none"
    /\ \A k \in 1..Len(StepsBeforeManifest) :
          ig.failed = StepsBeforeManifest[k] =>
              /\ ig.pc = "returned"
              /\ ig.steps = SubSeq(StepsBeforeManifest, 1, k)
              /\ manifest = ig.manifest_before
              /\ ig.exit \notin {-1, 0}

\* a second invocation failed in its copy after a first had written its entry
C25_Witness ==
    /\ Len(ig_done) = 1
    /\ ig.pc = "returned"
    /\ ig.failed = "copy"
    /\ manifest.state = "json"
    /\ ig_done[1].name \in DOMAIN manifest.repositories

\* the entries of a manifest file, none when there is no file
EntriesOf(m) == IF m.state = "json" THEN m.repositories ELSE <<>>

\* every entry but that of name is in both and has the same five fields
OthersKept(before, after, name) ==
    \A n \in (DOMAIN before \cup DOMAIN after) \ {name} :
        /\ n \in DOMAIN before
        /\ n \in DOMAIN after
        /\ \A k \in {"url", "version", "commit_sha", "commit_date", "ingested_at"} :
              after[n][k] = before[n][k]

\* C26: a successful ingest of N adds or replaces only the entry N, a remove of
\* N deletes only the entry N, every other entry keeping its five fields; a
\* remove of a name that is not in the manifest, or with no manifest file,
\* writes nothing and returns 0.
C26_OnlyOwnEntryTouched ==
    /\ (ig.failed = "none" /\ \E k \in 1..Len(ig.steps) : ig.steps[k] = "manifest") =>
          /\ manifest.state = "json"
          /\ ig.repo_name \in DOMAIN manifest.repositories
          /\ manifest.repositories[ig.repo_name].url = ig.repo_url
          /\ manifest.repositories[ig.repo_name].version = ig.version
          /\ OthersKept(EntriesOf(ig.manifest_before), manifest.repositories, ig.repo_name)
    /\ (rm.name # "" /\ rm.before.state = "json"
            /\ rm.name \in DOMAIN rm.before.repositories) =>
          /\ manifest.state = "json"
          /\ rm.name \notin DOMAIN manifest.repositories
          /\ OthersKept(rm.before.repositories, manifest.repositories, rm.name)
          /\ rm.exit = 0
    /\ (rm.name # "" /\ (rm.before.state = "absent"
                           \/ (rm.before.state = "json"
                                 /\ rm.name \notin DOMAIN rm.before.repositories))) =>
          /\ ~rm.wrote
          /\ manifest = rm.before
          /\ rm.exit = 0

\* an entry was removed from a manifest of two, the other one being kept
C26_Witness ==
    /\ rm.name = "lib"
    /\ rm.wrote
    /\ manifest.state = "json"
    /\ DOMAIN manifest.repositories = {"repo"}
    /\ DOMAIN rm.before.repositories = {"repo", "lib"}

\* an ingest replaced its own entry in a manifest that held another
C26_WitnessIngest ==
    /\ ig.pc = "returned"
    /\ ig.exit = 0
    /\ ig.manifest_before.state = "json"
    /\ DOMAIN ig.manifest_before.repositories = {"repo", "lib"}
    /\ ig.repo_name = "repo"
    /\ manifest.repositories["repo"] # ig.manifest_before.repositories["repo"]

\* the directory of the repository of the invocation
OwnDir == Get(ctx, ig.repo_name, EmptyDict)

\* C27: after successful ingests of one repository and no other invocation
\* (clock counts them all), at whatever versions and
\* under whatever filters, every file of its context directory other than
\* CONTEXT.md is a file of the revision ingested last that passes the filter of
\* that ingest: nothing of an earlier revision, nothing the filter excludes.
C27_OnlyLastRevisionKept ==
    (ig.pc = "returned" /\ ig.exit = 0
        /\ Len(ig_done) = clock
        /\ \A i \in 1..Len(ig_done) : ig_done[i].url = ig.repo_url) =>
    \A q \in DOMAIN OwnDir \ {"CONTEXT.md"} :
        /\ OwnDir[q].version = ig.version
        /\ \E f \in RevisionFiles(ig.version) :
              /\ f.rel = q
              /\ should_include_file(f, ig.filter.gf, ig.filter.al).include

\* s without the suffix w, when it ends with it
WithoutSuffix(s, w) ==
    IF Len(s) >= Len(w) /\ StartsWithAt(s, Len(s) - Len(w) + 1, w)
    THEN SubSeq(s, 1, Len(s) - Len(w))
    ELSE s

\* the name the URL stands for: trailing '/' removed, then one '.git' suffix,
\* the last segment taken and every other character replaced by '-'
NameOfUrl(url) ==
    LET parts == Split(WithoutSuffix(RStripChars(url, {"/"}), ".git"), "")
        last  == parts[Len(parts)]
    IN  [k \in 1..Len(last) |-> IF Char(last, k) \in NameChars THEN Char(last, k) ELSE "-"]

\* C28: for every accepted URL the repository name is the last segment of the
\* URL after removing trailing '/' and one optional '.git' suffix, every
\* character outside [A-Za-z0-9_-] replaced by '-'; a segment ending in 'g',
\* 'i', 't' or '.' keeps all its characters.
C28_NameIsLastSegment ==
    (ig.pc # "idle" /\ ig.failed # "init") =>
        /\ Len(ig.repo_name) = Len(NameOfUrl(ig.repo_url))
        /\ \A k \in 1..Len(ig.repo_name) :
              Char(ig.repo_name, k) = NameOfUrl(ig.repo_url)[k]

\* C29: two different URLs give two different manifest keys and two different
\* context directories: the directory of a repository that was ingested holds
\* no file written by the ingest of another URL.
C29_OneUrlPerName ==
    /\ \A i, j \in 1..Len(ig_done) :
          ig_done[i].url # ig_done[j].url => ig_done[i].name # ig_done[j].name
    /\ \A i \in 1..Len(ig_done) : \A q \in DOMAIN ctx[ig_done[i].name] :
          ctx[ig_done[i].name][q].url = ig_done[i].url

-----------------------------------------------------------------------------
(* Claim on setup-all, checked under SpecPlan *)

\* what C30 says of one step of setup-all out of its loop: either the next
\* stage in document order has been tried and the loop goes on, the stage
\* being put on the failures when its creation did not succeed, or every stage
\* has been tried and the exit code tells whether there were failures
SetupAllStepAsClaimed ==
    LET stages == ParsedPlan[plan_doc][1].stages
    IN  \/ /\ pw'.pc = "loop"
           /\ pw.i < Len(stages)
           /\ pw'.i = pw.i + 1
           /\ last_call'.idx = pw.i + 1
           /\ pw'.failures = IF last_call'.result = "True" THEN pw.failures
                             ELSE Append(pw.failures, stages[pw.i + 1]["id"])
        \/ /\ pw'.pc = "exited"
           /\ pw.i = Len(stages)
           /\ pw'.exit # 0 <=> pw.failures # <<>>
           /\ pw.failures # <<>> => pw'.err = "failed_stages"

\* C30: setup-all tries create_worktree for every stage of the plan in
\* document order, whatever the outcome of the earlier stages and whatever
\* depends_on says; it exits non-zero exactly when a stage failed, and the
\* failures it reports are the ids of the stages whose creation failed.
C30_EveryStageAttempted ==
    [][(pw.pc = "loop" /\ pw' # pw) => SetupAllStepAsClaimed]_vars

\* the same for the steps in which create_worktree does not raise
C30_GitFailuresDoNotStop ==
    [][(pw.pc = "loop" /\ pw' # pw /\ last_call'.result # "raised")
          => SetupAllStepAsClaimed]_vars

\* setup-all has gone on after the git failure of the first stage
C30_Witness ==
    /\ pw.pc = "loop"
    /\ pw.i = 2
    /\ Len(pw.failures) = 1
    /\ last_call.result = "True"

=============================================================================
